---- MODULE Spec2Model ----
(***************************************************************************)
(* Model of the spatio-temporal dataset assembly of cityzn-simulation      *)
(* (src/src/preprocessing/create_ml_dataset_v3.py).  The script is a       *)
(* straight-line batch pipeline; each ETAPE of the script is one action    *)
(* and pc is the position of the script.  The input feeds (road network,    *)
(* sensor metadata, hourly count files, facility layer, weather series)    *)
(* are read-only files: they are chosen in Init and never change.  A run   *)
(* ends in pc = "done", in "exited" (exit(1) of a missing-feed guard) or   *)
(* in "crashed" (an uncaught exception); the process exit code is          *)
(* non-zero in the last two.                                               *)
(*                                                                         *)
(* Units: distances are in tenths of a metre (499 = 49.9 m), timestamps    *)
(* are hours counted from the start of the collection period, angles are   *)
(* in half-degrees (45 = 22.5 degrees).                                    *)
(***************************************************************************)
EXTENDS Integers, Sequences, FiniteSets, TLC

\* ------------------------------------------------------------------ bounds
MaxRecords  == 2      \* count records of the feed (grid family)
MaxTime     == 3      \* hours of the collection period (grid family)
MaxWeather  == 3      \* records of the weather series (weather family)
MaxHours    == 25     \* hours of the long series (lag family)
MaxRollHours == 170   \* hours of the week-long series (rolling family)
MaxFiles    == 3      \* hourly count files (files family)
MaxLanes    == 2      \* facilities of the cycling layer (facility family)
MaxTargetHour == 167  \* last target hour of the prediction (calendar family)
MaxSeries   == 2      \* records of the weather series (closest-record family)
MaxSeriesHour == 3    \* last hour of that series and of its targets
MaxSecondHours == 2   \* hours counted by the second sensor (split family)

\* ------------------------------------------------------- program constants
MAX_DISTANCE == 50    \* metres
LAG_1H  == 1
LAG_24H == 24
ROLLING_WINDOW == 168 \* rows: 7 days of hourly rows
MIN_PERIODS == 1
LANE_BUFFER == 20     \* metres
NO_LANE_DISTANCE == 999999 \* metres: no facility distance computed
FULL_TURN == 720      \* 360 degrees, in half-degrees
DEFAULT_MAXSPEED == 50
DEFAULT_LANES == 2

\* Python None / pandas NaN of a numeric cell
None == -1

\* None / NaN of a text cell: a property the feature does not carry
NA == "NaN"

\* ----------------------------------------------------------------- helpers
SetMin(S) == CHOOSE x \in S : \A y \in S : x <= y
SetMax(S) == CHOOSE x \in S : \A y \in S : y <= x

Range(s) == {s[i] : i \in 1..Len(s)}

\* every list that enumerates the set S once (the iteration orders of a
\* Python set)
Orderings(S) ==
  {f \in [1..Cardinality(S) -> S] : \A i, j \in 1..Cardinality(S) : f[i] = f[j] => i = j}

\* the elements of a set of integers in ascending order
SortedSeq(S) ==
  LET below == [x \in S |-> Cardinality({y \in S : y < x})]
  IN  [k \in 1..Cardinality(S) |-> CHOOSE x \in S : below[x] = k - 1]

\* ------------------------------------------------------------------- state
VARIABLES
  pc,                 \* position of the script: the ETAPE about to run
  raised,             \* 0, or the ETAPE in which an exception or exit(1) ended the run
  files,              \* the single-file feeds that exist under data/raw
  edges_gdf,          \* road network: list of features [osm_id, geometry, tags]
  sensors_info,       \* sensor metadata: counter_id -> [lat, lon]
  distances,          \* projected distance sensor -> (edge position -> 0.1 m)
  bike_counter_files, \* hourly count files [readable, records], in name order
  lane_distances,     \* projected distance edge position -> (facility -> 0.1 m)
  weather_data,       \* weather series of the feed, in feed order
  sensor_to_edge,     \* association counter_id -> [edge_id, distance_m]
  edges_with_sensors, \* list of the distinct associated edge ids
  all_bike_records,   \* merged count records [counter_id, timestamp, count]
  bike_df,            \* retained count records, with edge_id
  bike_lane,          \* edge position -> [has_dedicated_bike_lane, bike_lane_distance_m]
  weather_df,         \* weather series as loaded
  edges_static,       \* the static-feature table, one row per edge
  timestamps,         \* sorted distinct timestamps of bike_df
  bike_lookup,        \* (edge_id, timestamp) -> summed count
  final_df,           \* the training grid
  written,            \* the output files written under data/processed
  \* ---- train_v3.py
  train_pc,           \* position of the training script
  train_raised,       \* 0, or the step in which an exception ended the script
  train_df,           \* df: the training table as read from the CSV file
  label_encoders,     \* categorical column -> classes_ of its fitted encoder
  feature_cols,       \* the feature columns, in table order
  df_valid,           \* the rows of df that hold a bike_count
  split_idx,          \* the first split_idx rows of df_valid are the training part
  models,             \* the files written under models/: name -> content
  \* ---- predict_v3.py
  predict_pc,         \* position of the prediction script
  predict_raised,     \* 0, or the step in which an exception or exit(1) ended it
  target_datetime,    \* --datetime: the hour to predict
  edges_pred,         \* edges: the static table as read, with the added columns
  closest_weather,    \* the weather record selected for target_datetime
  X,                  \* the feature matrix handed to the model
  \* ---- main_data_collection.py
  collect_pc,         \* position of the orchestrator
  collectors,         \* what the main() of each collector does when called
  called,             \* the collectors called so far, in call order
  results,            \* results["sources"]: the entries in insertion order
  summary             \* the sources written to collection_summary.json

inputs == <<files, edges_gdf, sensors_info, distances, bike_counter_files,
            lane_distances, weather_data>>

training == <<train_pc, train_raised, train_df, label_encoders, feature_cols, df_valid,
              split_idx, models>>

prediction == <<predict_pc, predict_raised, target_datetime, edges_pred, closest_weather, X>>

collection == <<collect_pc, collectors, called, results, summary>>

\* the state of the scripts that run beside the dataset assembly
scripts == <<training, prediction, collection>>

vars == <<pc, raised, inputs, sensor_to_edge, edges_with_sensors, all_bike_records,
          bike_df, bike_lane, weather_df, edges_static, timestamps, bike_lookup,
          final_df, written, scripts>>

\* --------------------------------------------------------- input universes
\* a LineString of the road network: its number of coordinates and, with two
\* coordinates or more, np.degrees(np.arctan2(dy, dx)) from the first to the
\* last one, in half-degrees (-360..360 is -180.0..180.0 degrees); closed
\* tells that the last coordinate repeats the first one (dx = dy = 0.0, for
\* which arctan2 returns 0.0); length is in tenths of a metre, center (the
\* distance to Place Bellecour) in tenths of a kilometre
Line(n, a) == [coords |-> n, angle |-> a, closed |-> FALSE, length |-> 1000, center |-> 12]

Straight == Line(2, 0)

\* a roundabout: five coordinates, the last one on the first
Ring == [coords |-> 5, angle |-> 0, closed |-> TRUE, length |-> 600, center |-> 12]

\* a LineString without coordinate: no length, and NaN as distance
EmptyLine == [coords |-> 0, angle |-> 0, closed |-> FALSE, length |-> 0, center |-> None]

\* the tags of a way as the collector writes them: name, highway and oneway
\* always (defaulted), the other properties only when the way carries the tag
PlainTags ==
  [name |-> "Rue de la Barre", highway |-> "residential", maxspeed |-> "50", lanes |-> "2", oneway |-> "no",
   surface |-> "asphalt", lit |-> "yes", cycleway |-> "lane", bicycle |-> "yes"]

BareTags ==
  [name |-> "Sans nom", highway |-> "unknown", maxspeed |-> NA, lanes |-> NA, oneway |-> "no",
   surface |-> NA, lit |-> NA, cycleway |-> NA, bicycle |-> NA]

\* one feature of the road-network feed
Way(id, geom, tags) ==
  [osm_id |-> id, geometry |-> geom, name |-> tags.name, highway |-> tags.highway,
   maxspeed |-> tags.maxspeed, lanes |-> tags.lanes, oneway |-> tags.oneway,
   surface |-> tags.surface, lit |-> tags.lit, cycleway |-> tags.cycleway,
   bicycle |-> tags.bicycle]

\* every LineString: empty, a single coordinate, a direction, or a loop
Geometries ==
  {EmptyLine, Line(1, 0), Ring}
  \cup {Line(2, a) : a \in -(FULL_TURN \div 2)..(FULL_TURN \div 2)}

\* values of the highway tag, NA for a feature without the property
HighwayTags ==
  {"motorway", "trunk", "primary", "secondary", "tertiary", "residential", "cycleway",
   "path", "unclassified", "footway", "service", "Residential", "unknown", NA}

\* values of the maxspeed and lanes tags
TagTexts == {"50", "30", "2", "+30", "30 mph", "walk", "sup2", NA}

\* the tags of one way, a group of tags varying at a time
TagVariants ==
  {[PlainTags EXCEPT !.highway = h] : h \in HighwayTags}
  \cup {[PlainTags EXCEPT !.maxspeed = m, !.lanes = l] : m \in TagTexts, l \in TagTexts}
  \cup {[PlainTags EXCEPT !.oneway = o, !.surface = u, !.lit = t, !.cycleway = c,
                          !.bicycle = b] :
          o \in {"yes", "no", NA}, u \in {"asphalt", "Asphalt", "concrete", "gravel", NA},
          t \in {"yes", "no", NA}, c \in {"lane", NA}, b \in {"yes", "no", NA}}

\* the road network: OSM way ids are unique
Edges == <<Way(101, Straight, PlainTags), Way(102, Straight, PlainTags)>>

\* the sensors of the metadata feed, and a counter the feed does not know
CounterIds == {"c1", "c2"}
UnknownCounter == "cx"

\* a point written by the collector: a null coordinate, (0, 0), or a Lyon value
NullPoints == {[lat |-> None, lon |-> 5], [lat |-> 46, lon |-> None]}
ZeroPoint  == [lat |-> 0, lon |-> 0]
LyonPoint  == [lat |-> 46, lon |-> 5]

\* distances around the 50.0 m threshold: 49.9 m, 50.0 m, 50.1 m
NearDistances == {499, 500, 501}
\* latitude 0, longitude 0 is thousands of kilometres from the Lyon bounding
\* box in which the road network is collected
FarDistances == <<60000000, 60000000>>

\* what one sensor can be: its metadata entry and where the device stands
SensorCases ==
  {[info |-> pt, dist |-> <<499, 500>>] : pt \in NullPoints}
  \cup {[info |-> ZeroPoint, dist |-> FarDistances]}
  \cup {[info |-> LyonPoint, dist |-> d] : d \in [1..Len(Edges) -> NearDistances]}

OnFirstEdge  == [info |-> LyonPoint, dist |-> <<499, 501>>]
OnSecondEdge == [info |-> LyonPoint, dist |-> <<501, 500>>]
TooFar       == [info |-> LyonPoint, dist |-> <<501, 501>>]
NoPoint      == [info |-> [lat |-> None, lon |-> 5], dist |-> <<499, 500>>]

\* count records of an hourly feed
CountRecords(counters, hours, counts) ==
  [counter_id : counters, timestamp : hours, count : counts]

SeqsUpTo(S, n) == UNION {[1..k -> S] : k \in 0..n}

\* the single-file feeds of data/raw
OsmFile     == "osm/osm_network.json"
SensorsFile == "bike/bike_sensors_metadata.json"
InfraFile   == "bike/bike_infrastructure.json"
WeatherFile == "weather/weather_data.json"
AllFiles    == {OsmFile, SensorsFile, InfraFile, WeatherFile}

\* the outputs of data/processed
StaticTable   == "edges_static_v3.gpkg"
TrainingTable == "final_dataset_v3.csv"

\* one hourly count file that json.load reads
CountFile(records) == [readable |-> TRUE, records |-> records]

\* an hourly count file that json.load rejects; records is what the damaged
\* file held
CorruptFile(records) == [readable |-> FALSE, records |-> records]

\* the files of the count directory: two hourly files, a damaged one, and
\* bike_counters_summary.json, which has no 'records' key
FileKinds ==
  {CountFile(<<[counter_id |-> "c1", timestamp |-> 1, count |-> 3]>>),
   CountFile(<<[counter_id |-> "c1", timestamp |-> 2, count |-> 5],
               [counter_id |-> "c2", timestamp |-> 2, count |-> 3]>>),
   CorruptFile(<<[counter_id |-> "c2", timestamp |-> 1, count |-> 5]>>),
   CountFile(<<>>)}

\* distances edge -> facility: touching, 15 m (inside the buffer), 30 m
LaneDistances == {0, 150, 300}

\* one facility 15 m from the first edge and 30 m from the second
OneLane == <<<<150>>, <<300>>>>

\* one hourly record of the weather feed (degrees, millimetres, km/h);
\* is_raining is the flag the collector derived from the rain amount
Measure(ts, temperature, wind) ==
  [timestamp |-> ts, temperature_c |-> temperature, precipitation_mm |-> 0,
   wind_speed_kmh |-> wind, is_raining |-> FALSE]

\* a weather series with one record for every hour of the period
FullWeather == [i \in 1..(MaxTime + 1) |-> Measure(i, 10 + i, 10)]

\* what the ETAPEs compute
computed == <<sensor_to_edge, edges_with_sensors, all_bike_records, bike_df, bike_lane,
              weather_df, edges_static, timestamps, bike_lookup, final_df, written>>

\* ================================================== ETAPE 1: road network
\* shapely builds a LineString from no coordinate (an empty geometry) or
\* from two and more, and raises on exactly one
Loadable(geom) == geom.coords # 1

Etape1 ==
  /\ pc = "etape1"
  /\ IF OsmFile \notin files
       THEN \* exit(1), line 48
            /\ pc' = "exited"
            /\ raised' = 1
       ELSE IF \E i \in 1..Len(edges_gdf) : ~Loadable(edges_gdf[i].geometry)
         THEN \* GeoDataFrame.from_features raises, line 53
              /\ pc' = "crashed"
              /\ raised' = 1
         ELSE /\ pc' = "etape2"
              /\ UNCHANGED raised
  /\ UNCHANGED <<scripts, inputs, computed>>

\* ================================================ ETAPE 2: sensor metadata
Etape2 ==
  /\ pc = "etape2"
  /\ IF SensorsFile \notin files
       THEN \* exit(1), line 70
            /\ pc' = "exited"
            /\ raised' = 2
       ELSE /\ pc' = "etape3"
            /\ UNCHANGED raised
  /\ UNCHANGED <<scripts, inputs, computed>>

\* ===================================================== ETAPE 3: association
\* Python truthiness of a latitude/longitude cell: None and 0 are falsy
Truthy(x) == x # None /\ x # 0

\* the sensors that enter sensors_list
SensorsList(info) == {c \in DOMAIN info : Truthy(info[c].lat) /\ Truthy(info[c].lon)}

\* distances.idxmin(): the first position holding the smallest distance; the
\* NaN distance to an empty geometry is skipped
IdxMin(d) ==
  SetMin({i \in 1..Len(d) :
            d[i] # None /\ \A j \in 1..Len(d) : d[j] # None => d[i] <= d[j]})

\* mutant: the threshold test written with < instead of <=
SensorToEdgeStrict(info, dist, edges) ==
  [c \in {s \in SensorsList(info) : dist[s][IdxMin(dist[s])] < MAX_DISTANCE * 10} |->
     [edge_id    |-> edges[IdxMin(dist[c])].osm_id,
      distance_m |-> dist[c][IdxMin(dist[c])]]]

\* mutant: the nearest edge is taken whatever its distance
SensorToEdgeNoThreshold(info, dist, edges) ==
  [c \in SensorsList(info) |->
     [edge_id    |-> edges[IdxMin(dist[c])].osm_id,
      distance_m |-> dist[c][IdxMin(dist[c])]]]

\* the association loop over sensors_lam
SensorToEdge(info, dist, edges) ==
  [c \in {s \in SensorsList(info) : dist[s][IdxMin(dist[s])] <= MAX_DISTANCE * 10} |->
     [edge_id    |-> edges[IdxMin(dist[c])].osm_id,
      distance_m |-> dist[c][IdxMin(dist[c])]]]

\* set(info['edge_id'] for info in sensor_to_edge.values())
EdgeIdSet(s2e) == {s2e[c].edge_id : c \in DOMAIN s2e}

Etape3 ==
  /\ pc = "etape3"
  /\ IF SensorsList(sensors_info) = {}
       THEN \* GeoDataFrame([], crs=...) has no geometry column: lines 94/99 raise
            /\ pc' = "crashed"
            /\ raised' = 3
            /\ UNCHANGED <<sensor_to_edge, edges_with_sensors>>
       ELSE /\ sensor_to_edge' = SensorToEdge(sensors_info, distances, edges_gdf)
            /\ edges_with_sensors' \in Orderings(EdgeIdSet(sensor_to_edge'))
            /\ pc' = "etape4"
            /\ UNCHANGED raised
  /\ UNCHANGED <<scripts, inputs, all_bike_records, bike_df, bike_lane, weather_df, edges_static,
                 timestamps, bike_lookup, final_df, written>>

\* ================================================= ETAPE 4: count records
\* mutant: an unreadable file contributes the records read before the error
RECURSIVE ReadFilesPartial(_)
ReadFilesPartial(fs) ==
  IF fs = <<>> THEN <<>>
  ELSE ReadFilesPartial(SubSeq(fs, 1, Len(fs) - 1)) \o fs[Len(fs)].records

\* the loop over bike_counter_files: json.load in a try/except, then extend
RECURSIVE ReadFiles(_)
ReadFiles(fs) ==
  IF fs = <<>> THEN <<>>
  ELSE ReadFiles(SubSeq(fs, 1, Len(fs) - 1))
       \o (IF fs[Len(fs)].readable THEN fs[Len(fs)].records ELSE <<>>)

\* bike_df['counter_id'].map(...) then the notna() filter
AssociateEdges(records, s2e) ==
  LET kept == SelectSeq(records, LAMBDA r : r.counter_id \in DOMAIN s2e)
  IN  [i \in 1..Len(kept) |->
         [counter_id |-> kept[i].counter_id, timestamp |-> kept[i].timestamp,
          count |-> kept[i].count, edge_id |-> s2e[kept[i].counter_id].edge_id]]

Etape4 ==
  /\ pc = "etape4"
  /\ IF bike_counter_files = <<>>
       THEN \* exit(1), line 135
            /\ pc' = "exited"
            /\ raised' = 4
            /\ UNCHANGED <<all_bike_records, bike_df>>
       ELSE /\ all_bike_records' = ReadFiles(bike_counter_files)
            /\ IF all_bike_records' = <<>>
                 THEN \* pd.DataFrame([]) has no 'timestamp' column: line 151 raises
                      /\ pc' = "crashed"
                      /\ raised' = 4
                      /\ UNCHANGED bike_df
                 ELSE /\ bike_df' = AssociateEdges(all_bike_records', sensor_to_edge)
                      /\ pc' = "etape5"
                      /\ UNCHANGED raised
  /\ UNCHANGED <<scripts, inputs, sensor_to_edge, edges_with_sensors, bike_lane, weather_df,
                 edges_static, timestamps, bike_lookup, final_df, written>>

\* ========================================= ETAPE 5: cycling infrastructure
\* an edge intersects the 20 m buffer of some facility
NearLane(d) == \E k \in 1..Len(d) : d[k] <= LANE_BUFFER * 10

\* mutant: the exact distance is computed for every edge
LaneColumnsAllEdges(edges, lanes, with_sensors) ==
  [i \in 1..Len(edges) |->
     [has_dedicated_bike_lane |-> NearLane(lanes[i]),
      bike_lane_distance_m    |->
        IF Len(lanes[i]) > 0 THEN SetMin(Range(lanes[i])) ELSE NO_LANE_DISTANCE * 10]]

\* the columns has_dedicated_bike_lane / bike_lane_distance_m when the layer
\* is present: the exact distance only for the edges of edges_with_sensors
LaneColumns(edges, lanes, with_sensors) ==
  [i \in 1..Len(edges) |->
     [has_dedicated_bike_lane |-> NearLane(lanes[i]),
      bike_lane_distance_m    |->
        IF edges[i].osm_id \in Range(with_sensors) /\ Len(lanes[i]) > 0
          THEN SetMin(Range(lanes[i]))
          ELSE NO_LANE_DISTANCE * 10]]

\* mutant: an absent layer leaves distance 0
NoLaneColumnsZero(edges) ==
  [i \in 1..Len(edges) |-> [has_dedicated_bike_lane |-> FALSE, bike_lane_distance_m |-> 0]]

\* the columns when the layer is absent
NoLaneColumns(edges) ==
  [i \in 1..Len(edges) |->
     [has_dedicated_bike_lane |-> FALSE, bike_lane_distance_m |-> NO_LANE_DISTANCE * 10]]

Etape5 ==
  /\ pc = "etape5"
  /\ IF InfraFile \in files
       THEN \/ \* from_features([], crs=...) of a layer without features: some
               \* geopandas releases build a frame without geometry column
               \* and lines 174-177 raise, others give an empty layer
               /\ \A i \in 1..Len(lane_distances) : lane_distances[i] = <<>>
               /\ pc' = "crashed"
               /\ raised' = 5
               /\ UNCHANGED bike_lane
            \/ /\ bike_lane' = LaneColumns(edges_gdf, lane_distances, edges_with_sensors)
               /\ pc' = "etape6"
               /\ UNCHANGED raised
       ELSE /\ bike_lane' = NoLaneColumns(edges_gdf)
            /\ pc' = "etape6"
            /\ UNCHANGED raised
  /\ UNCHANGED <<scripts, inputs, sensor_to_edge, edges_with_sensors, all_bike_records, bike_df,
                 weather_df, edges_static, timestamps, bike_lookup, final_df, written>>

\* ====================================================== ETAPE 6: weather
\* mutant: the weather file is opened without the existence guard
Etape6Unguarded ==
  /\ pc = "etape6"
  /\ weather_df' = weather_data
  /\ pc' = "etape7"
  /\ UNCHANGED <<scripts, inputs, raised, sensor_to_edge, edges_with_sensors, all_bike_records,
                 bike_df, bike_lane, edges_static, timestamps, bike_lookup, final_df,
                 written>>

Etape6 ==
  /\ pc = "etape6"
  /\ IF WeatherFile \notin files
       THEN \* exit(1), line 238
            /\ pc' = "exited"
            /\ raised' = 6
            /\ UNCHANGED weather_df
       ELSE IF weather_data = <<>>
         THEN \* pd.DataFrame([]) has no 'timestamp' column: line 245 raises
              /\ pc' = "crashed"
              /\ raised' = 6
              /\ UNCHANGED weather_df
         ELSE /\ weather_df' = weather_data
              /\ pc' = "etape7"
              /\ UNCHANGED raised
  /\ UNCHANGED <<scripts, inputs, sensor_to_edge, edges_with_sensors, all_bike_records, bike_df,
                 bike_lane, edges_static, timestamps, bike_lookup, final_df, written>>

\* ============================================== ETAPE 7: static features
\* calc_orientation: the octant of the direction first -> last coordinate
\* mutant: the octant intervals closed on the right
CalcOrientationClosedRight(geom) ==
  IF geom.coords < 2 THEN NA
  ELSE LET angle == IF geom.angle < 0 THEN geom.angle + FULL_TURN ELSE geom.angle IN
       IF angle <= 45 \/ angle > 675 THEN "E"
       ELSE IF angle <= 135 THEN "NE"
       ELSE IF angle <= 225 THEN "N"
       ELSE IF angle <= 315 THEN "NW"
       ELSE IF angle <= 405 THEN "W"
       ELSE IF angle <= 495 THEN "SW"
       ELSE IF angle <= 585 THEN "S"
       ELSE "SE"

\* mutant: a line without displacement is given no orientation
CalcOrientationLoopUndefined(geom) ==
  IF geom.coords < 2 \/ geom.closed THEN NA
  ELSE LET angle == IF geom.angle < 0 THEN geom.angle + FULL_TURN ELSE geom.angle IN
       IF angle < 45 \/ angle >= 675 THEN "E"
       ELSE IF angle < 135 THEN "NE"
       ELSE IF angle < 225 THEN "N"
       ELSE IF angle < 315 THEN "NW"
       ELSE IF angle < 405 THEN "W"
       ELSE IF angle < 495 THEN "SW"
       ELSE IF angle < 585 THEN "S"
       ELSE "SE"

CalcOrientation(geom) ==
  IF geom.coords < 2 THEN NA
  ELSE LET angle == IF geom.angle < 0 THEN geom.angle + FULL_TURN ELSE geom.angle IN
       IF angle < 45 \/ angle >= 675 THEN "E"
       ELSE IF angle < 135 THEN "NE"
       ELSE IF angle < 225 THEN "N"
       ELSE IF angle < 315 THEN "NW"
       ELSE IF angle < 405 THEN "W"
       ELSE IF angle < 495 THEN "SW"
       ELSE IF angle < 585 THEN "S"
       ELSE "SE"

\* Series.fillna(value)
FillNa(x, value) == IF x = NA THEN value ELSE x

\* mutant: residential roads put with the arterials
CategorizeRoadResidentialArterial(highway_type) ==
  IF highway_type \in {"motorway", "trunk"} THEN "major"
  ELSE IF highway_type \in {"primary", "secondary", "residential"} THEN "arterial"
  ELSE IF highway_type \in {"tertiary"} THEN "local"
  ELSE IF highway_type \in {"cycleway", "path"} THEN "bike_path"
  ELSE "other"

CategorizeRoad(highway_type) ==
  IF highway_type \in {"motorway", "trunk"} THEN "major"
  ELSE IF highway_type \in {"primary", "secondary"} THEN "arterial"
  ELSE IF highway_type \in {"tertiary", "residential"} THEN "local"
  ELSE IF highway_type \in {"cycleway", "path"} THEN "bike_path"
  ELSE "other"

\* str(x) as its characters; "sup2" stands for the one character SUPERSCRIPT TWO
Chars(x) ==
  CASE x = "50"     -> <<"5", "0">>
    [] x = "30"     -> <<"3", "0">>
    [] x = "2"      -> <<"2">>
    [] x = "+30"    -> <<"+", "3", "0">>
    [] x = "30 mph" -> <<"3", "0", " ", "m", "p", "h">>
    [] x = "walk"   -> <<"w", "a", "l", "k">>
    [] x = "sup2"   -> <<"sup2">>

DecimalDigits == <<"0", "1", "2", "3", "4", "5", "6", "7", "8", "9">>

\* str.isdigit(): non-empty and every character has the Unicode digit
\* property, which the decimal digits and the superscript digits have
IsDigit(x) ==
  /\ Chars(x) # <<>>
  /\ \A i \in 1..Len(Chars(x)) : Chars(x)[i] \in Range(DecimalDigits) \cup {"sup2"}

\* int(x) of a text of decimal digits
RECURSIVE DecimalValue(_)
DecimalValue(chars) ==
  IF chars = <<>> THEN 0
  ELSE DecimalValue(SubSeq(chars, 1, Len(chars) - 1)) * 10
       + (CHOOSE v \in 0..9 : DecimalDigits[v + 1] = chars[Len(chars)])

\* int(x) raises ValueError on a character that is not a decimal digit
IntRaises(x) == \E i \in 1..Len(Chars(x)) : Chars(x)[i] \notin Range(DecimalDigits)

\* lambda x: int(x) if pd.notna(x) and str(x).isdigit() else default
ParseTag(x, default) == IF x # NA /\ IsDigit(x) THEN DecimalValue(Chars(x)) ELSE default

\* the lambda raises on the tag x
ParseTagRaises(x) == x # NA /\ IsDigit(x) /\ IntRaises(x)

\* str(surface).lower()
Lower(x) == IF x = "Asphalt" THEN "asphalt" ELSE x

CategorizeSurface(surface) ==
  IF surface = NA THEN "unknown"
  ELSE IF Lower(surface) \in {"asphalt", "paved"} THEN "good"
  ELSE IF Lower(surface) \in {"concrete", "paving_stones"} THEN "medium"
  ELSE "poor"

\* the raw columns ETAPE 7 reads, in the order it reads them
RawColumns ==
  <<"highway", "maxspeed", "lanes", "oneway", "cycleway", "surface", "bicycle", "lit">>

\* from_features makes a column of a property that some feature carries
HasColumn(edges, column) == \E i \in 1..Len(edges) : edges[i][column] # NA

\* ETAPE 7 raises: KeyError on a column no feature carries, ValueError of int()
StaticRaises(edges) ==
  \/ \E k \in 1..Len(RawColumns) : ~HasColumn(edges, RawColumns[k])
  \/ \E i \in 1..Len(edges) :
       ParseTagRaises(edges[i].maxspeed) \/ ParseTagRaises(edges[i].lanes)

\* one row of edges_static
StaticRow(edge, lane, with_sensors) ==
  [osm_id                  |-> edge.osm_id,
   name                    |-> edge.name,
   highway_type            |-> FillNa(edge.highway, "unknown"),
   road_category           |-> CategorizeRoad(FillNa(edge.highway, "unknown")),
   lanes                   |-> ParseTag(edge.lanes, DEFAULT_LANES),
   maxspeed_kmh            |-> ParseTag(edge.maxspeed, DEFAULT_MAXSPEED),
   is_oneway               |-> edge.oneway = "yes",
   has_cycleway            |-> edge.cycleway # NA,
   cycleway_type           |-> FillNa(edge.cycleway, "none"),
   has_dedicated_bike_lane |-> lane.has_dedicated_bike_lane,
   bike_lane_distance_m    |-> lane.bike_lane_distance_m,
   surface_quality         |-> CategorizeSurface(edge.surface),
   bicycle_access          |-> FillNa(edge.bicycle, "yes"),
   is_lit                  |-> edge.lit = "yes",
   edge_length_m           |-> edge.geometry.length,
   distance_to_center_km   |-> edge.geometry.center,
   orientation             |-> CalcOrientation(edge.geometry),
   geometry                |-> edge.geometry,
   has_real_sensor         |-> edge.osm_id \in Range(with_sensors)]

Etape7 ==
  /\ pc = "etape7"
  /\ IF StaticRaises(edges_gdf)
       THEN /\ pc' = "crashed"
            /\ raised' = 7
            /\ UNCHANGED <<edges_static, written>>
       ELSE /\ edges_static' = [i \in 1..Len(edges_gdf) |->
                                  StaticRow(edges_gdf[i], bike_lane[i], edges_with_sensors)]
            /\ written' = written \cup {StaticTable}
            /\ pc' = "etape8"
            /\ UNCHANGED raised
  /\ UNCHANGED <<scripts, inputs, sensor_to_edge, edges_with_sensors, all_bike_records,
                 bike_df, bike_lane, weather_df, timestamps, bike_lookup, final_df>>

\* ================================================= ETAPE 8: training grid
\* bike_df['timestamp'].unique(): the timestamps in order of first appearance
Unique(col) ==
  LET firsts == SelectSeq([i \in 1..Len(col) |-> i],
                          LAMBDA i : \A j \in 1..(i - 1) : col[j] # col[i])
  IN  [k \in 1..Len(firsts) |-> col[firsts[k]]]

\* sorted(xs) of a list of integers (duplicates kept): xs[i] goes to the
\* position after the smaller cells and the equal cells that precede it
Sorted(xs) ==
  LET before == [i \in 1..Len(xs) |->
                   Cardinality({j \in 1..Len(xs) : xs[j] < xs[i] \/ (xs[j] = xs[i] /\ j < i)})]
  IN  [k \in 1..Len(xs) |-> xs[CHOOSE i \in 1..Len(xs) : before[i] = k - 1]]

\* mutant: the timestamps are sorted without unique()
TimestampsNotUnique(df) == Sorted([i \in 1..Len(df) |-> df[i].timestamp])

\* timestamps = sorted(bike_df['timestamp'].unique())
Timestamps(df) == Sorted(Unique([i \in 1..Len(df) |-> df[i].timestamp]))

\* the keys (edge_id, timestamp) of the rows of bike_df
LookupKeys(df) == {<<df[i].edge_id, df[i].timestamp>> : i \in 1..Len(df)}

\* the rows of bike_df that fall on one key, in frame order
RowsOfKey(df, key) == SelectSeq(df, LAMBDA r : <<r.edge_id, r.timestamp>> = key)

\* bike_lookup[key] after the rows of one key: get(key, 0) + count, row by row
RECURSIVE Accumulate(_)
Accumulate(rows) ==
  IF rows = <<>> THEN 0
  ELSE Accumulate(SubSeq(rows, 1, Len(rows) - 1)) + rows[Len(rows)].count

\* mutant: the lookup is assigned (=) instead of accumulated (+=)
BikeLookupAssign(df) ==
  [key \in LookupKeys(df) |-> RowsOfKey(df, key)[Len(RowsOfKey(df, key))].count]

\* mutant: only the first row of a key is counted
BikeLookupFirst(df) == [key \in LookupKeys(df) |-> RowsOfKey(df, key)[1].count]

\* the bike_lookup accumulation loop
BikeLookup(df) == [key \in LookupKeys(df) |-> Accumulate(RowsOfKey(df, key))]

\* bike_lookup.get(key, None)
LookupGet(lookup, key) == IF key \in DOMAIN lookup THEN lookup[key] ELSE None

\* numpy searchsorted(side='left'): the binary search, whatever the order of a
RECURSIVE BinSearchLeft(_, _, _, _)
BinSearchLeft(a, key, lo, hi) ==
  IF lo < hi
    THEN LET mid == lo + ((hi - lo) \div 2) IN
         IF a[mid + 1] < key THEN BinSearchLeft(a, key, mid + 1, hi)
                             ELSE BinSearchLeft(a, key, lo, mid)
    ELSE lo

SearchSorted(a, key) == BinSearchLeft(a, key, 0, Len(a))

\* df.iloc[i] with Python's 0-based index, negative counting from the end
Iloc(df, i) == IF i < 0 THEN df[Len(df) + i + 1] ELSE df[i + 1]

\* the weather_row selection of the grid loop
WeatherRow(wdf, ts) ==
  LET exact == SelectSeq(wdf, LAMBDA r : r.timestamp = ts) IN
  IF Len(exact) = 0
    THEN Iloc(wdf, SearchSorted([i \in 1..Len(wdf) |-> wdf[i].timestamp], ts) - 1)
    ELSE Iloc(exact, 0)

\* edges_dict: osm_id -> the row of the edge with its computed columns; a
\* later row of the same osm_id overwrites an earlier one
EdgesDict(static) ==
  [id \in {static[i].osm_id : i \in 1..Len(static)} |->
     static[SetMax({i \in 1..Len(static) : static[i].osm_id = id})]]

\* ts.hour and ts.weekday() (0 = Monday); hour 0 of the collection period is
\* a Monday at midnight
Hour(ts) == ts % 24

Weekday(ts) == (ts \div 24) % 7

\* the calendar columns of a grid row
Temporel(ts) ==
  [hour                 |-> Hour(ts),
   day_of_week          |-> Weekday(ts),
   is_weekend           |-> Weekday(ts) >= 5,
   is_rush_hour_morning |-> 7 <= Hour(ts) /\ Hour(ts) <= 9,
   is_rush_hour_evening |-> 17 <= Hour(ts) /\ Hour(ts) <= 19]

\* pd.notna of a numeric cell
NotNa(x) == x # None

\* the weather columns of a grid row
Meteo(weather_row) ==
  [temperature_c    |-> weather_row.temperature_c,
   precipitation_mm |-> weather_row.precipitation_mm,
   wind_speed_kmh   |-> weather_row.wind_speed_kmh,
   is_raining       |-> weather_row.is_raining,
   is_cold  |-> IF NotNa(weather_row.temperature_c) THEN weather_row.temperature_c < 10 ELSE FALSE,
   is_hot   |-> IF NotNa(weather_row.temperature_c) THEN weather_row.temperature_c > 25 ELSE FALSE,
   is_windy |-> IF NotNa(weather_row.wind_speed_kmh) THEN weather_row.wind_speed_kmh > 20 ELSE FALSE]

\* the infrastructure columns of a grid row
Infrastructure(edge_row) ==
  [highway_type            |-> edge_row.highway_type,
   road_category           |-> edge_row.road_category,
   lanes                   |-> edge_row.lanes,
   maxspeed_kmh            |-> edge_row.maxspeed_kmh,
   has_cycleway            |-> edge_row.has_cycleway,
   has_dedicated_bike_lane |-> edge_row.has_dedicated_bike_lane,
   bike_lane_distance_m    |-> edge_row.bike_lane_distance_m,
   surface_quality         |-> edge_row.surface_quality,
   is_lit                  |-> edge_row.is_lit,
   edge_length_m           |-> edge_row.edge_length_m,
   distance_to_center_km   |-> edge_row.distance_to_center_km,
   orientation             |-> edge_row.orientation]

\* one row of the grid
GridRow(edge_id, ts, lookup, weather_row, edges_dict) ==
  [edge_id |-> edge_id, timestamp |-> ts]
  @@ Temporel(ts)
  @@ Meteo(weather_row)
  @@ Infrastructure(edges_dict[edge_id])
  @@ [bike_count |-> LookupGet(lookup, <<edge_id, ts>>)]

\* mutant: a row is appended only where a count was observed
RowsOfTimestampObserved(edge_list, ts, lookup, weather_row, edges_dict) ==
  SelectSeq([k \in 1..Len(edge_list) |->
               GridRow(edge_list[k], ts, lookup, weather_row, edges_dict)],
            LAMBDA r : <<r.edge_id, ts>> \in DOMAIN lookup)

\* the inner loop: one row per edge with sensor
RowsOfTimestamp(edge_list, ts, lookup, weather_row, edges_dict) ==
  [k \in 1..Len(edge_list) |-> GridRow(edge_list[k], ts, lookup, weather_row, edges_dict)]

\* the outer loop over the timestamps: the rows of the first timestamps,
\* then those of the last ones
RECURSIVE DatasetRows(_, _, _, _, _)
DatasetRows(ts_list, edge_list, lookup, wdf, edges_dict) ==
  IF ts_list = <<>> THEN <<>>
  ELSE IF Len(ts_list) = 1
    THEN RowsOfTimestamp(edge_list, ts_list[1], lookup, WeatherRow(wdf, ts_list[1]),
                         edges_dict)
    ELSE LET half == Len(ts_list) \div 2 IN
         DatasetRows(SubSeq(ts_list, 1, half), edge_list, lookup, wdf, edges_dict)
         \o DatasetRows(SubSeq(ts_list, half + 1, Len(ts_list)), edge_list, lookup, wdf,
                        edges_dict)

Etape8 ==
  /\ pc = "etape8"
  /\ timestamps' = Timestamps(bike_df)
  /\ bike_lookup' = BikeLookup(bike_df)
  /\ final_df' = DatasetRows(timestamps', edges_with_sensors, bike_lookup', weather_df,
                             EdgesDict(edges_static))
  /\ pc' = "etape9"
  /\ UNCHANGED <<scripts, inputs, raised, sensor_to_edge, edges_with_sensors, all_bike_records,
                 bike_df, bike_lane, weather_df, edges_static, written>>

\* ================================================== ETAPE 9: lag features
\* row a sorts before row b under sort_values(['edge_id', 'timestamp'])
RowBefore(a, b) ==
  \/ a.edge_id < b.edge_id
  \/ a.edge_id = b.edge_id /\ a.timestamp < b.timestamp

\* final_df.sort_values(['edge_id', 'timestamp']), stable: a row goes to the
\* position after the rows that sort before it and the equal rows above it
SortValues(df) ==
  LET before == [i \in 1..Len(df) |->
                   Cardinality({j \in 1..Len(df) :
                                  \/ RowBefore(df[j], df[i])
                                  \/ ~RowBefore(df[i], df[j]) /\ j < i})]
  IN  [k \in 1..Len(df) |-> df[CHOOSE i \in 1..Len(df) : before[i] = k - 1]]

\* the positions 1..n of the rows of edge e, in frame order
GroupRows(df, n, e) == SelectSeq([i \in 1..n |-> i], LAMBDA i : df[i].edge_id = e)

\* mutant: shift(k) over the whole frame, without the groupby
GroupShiftUngrouped(df, p, k) == IF p - k < 1 THEN None ELSE df[p - k].bike_count

\* groupby('edge_id')['bike_count'].shift(k), for the row at position p
GroupShift(df, p, k) ==
  LET same == GroupRows(df, p - 1, df[p].edge_id) IN
  IF Len(same) < k THEN None
  ELSE df[same[Len(same) - k + 1]].bike_count

\* the mean of a window as an exact fraction in lowest terms; 0/0 is NaN
RECURSIVE GCD(_, _)
GCD(a, b) == IF b = 0 THEN a ELSE GCD(b, a % b)

NaN == [num |-> 0, den |-> 0]

Fraction(n, d) == IF d = 0 THEN NaN ELSE [num |-> n \div GCD(n, d), den |-> d \div GCD(n, d)]

\* sum and number of the non-null cells of the rows g[lo..hi]
RECURSIVE WindowSum(_, _, _, _)
WindowSum(df, g, lo, hi) ==
  IF lo > hi THEN 0
  ELSE IF lo = hi
    THEN (IF df[g[hi]].bike_count = None THEN 0 ELSE df[g[hi]].bike_count)
    ELSE WindowSum(df, g, lo, (lo + hi) \div 2) + WindowSum(df, g, (lo + hi) \div 2 + 1, hi)

WindowCount(df, g, lo, hi) ==
  Cardinality({i \in lo..hi : df[g[i]].bike_count # None})

\* mutant: an expanding mean, the window never slides
RollingMeanExpanding(df, p, window) ==
  LET g == GroupRows(df, p, df[p].edge_id)
  IN  IF WindowCount(df, g, 1, Len(g)) < MIN_PERIODS THEN NaN
      ELSE Fraction(WindowSum(df, g, 1, Len(g)), WindowCount(df, g, 1, Len(g)))

\* groupby('edge_id')['bike_count'].transform(rolling(window, min_periods).mean()),
\* for the row at position p: NaN cells are not observations
RollingMean(df, p, window) ==
  LET g  == GroupRows(df, p, df[p].edge_id)
      hi == Len(g)
      lo == IF hi > window THEN hi - window + 1 ELSE 1
  IN  IF WindowCount(df, g, lo, hi) < MIN_PERIODS THEN NaN
      ELSE Fraction(WindowSum(df, g, lo, hi), WindowCount(df, g, lo, hi))

\* the grid with its lag and rolling columns
LagFeatures(df) ==
  [p \in 1..Len(df) |->
     df[p] @@ [bike_count_lag_1h     |-> GroupShift(df, p, LAG_1H),
               bike_count_lag_24h    |-> GroupShift(df, p, LAG_24H),
               bike_count_rolling_7d |-> RollingMean(df, p, ROLLING_WINDOW)]]

Etape9 ==
  /\ pc = "etape9"
  /\ IF final_df = <<>>
       THEN \* pd.DataFrame([]) has no 'edge_id' column: sort_values raises
            /\ pc' = "crashed"
            /\ raised' = 9
            /\ UNCHANGED final_df
       ELSE /\ final_df' = LagFeatures(SortValues(final_df))
            /\ pc' = "etape10"
            /\ UNCHANGED raised
  /\ UNCHANGED <<scripts, inputs, sensor_to_edge, edges_with_sensors, all_bike_records, bike_df,
                 bike_lane, weather_df, edges_static, timestamps, bike_lookup, written>>

\* ========================================================= ETAPE 10: save
Etape10 ==
  /\ pc = "etape10"
  /\ written' = written \cup {TrainingTable}
  /\ pc' = "done"
  /\ UNCHANGED <<scripts, inputs, raised, sensor_to_edge, edges_with_sensors, all_bike_records,
                 bike_df, bike_lane, weather_df, edges_static, timestamps, bike_lookup,
                 final_df>>

\* ============================================================ train_v3.py
\* the state of the dataset assembly, which the other scripts only read
assembly == <<pc, raised, inputs, computed>>

\* a run of the dataset assembly has ended
AssemblyEnded == pc \in {"done", "exited", "crashed"}

\* the columns of the training table in the order to_csv writes them: the
\* keys of a grid row, then the lag columns
GridColumns ==
  <<"edge_id", "timestamp", "hour", "day_of_week", "is_weekend", "is_rush_hour_morning",
    "is_rush_hour_evening", "temperature_c", "precipitation_mm", "wind_speed_kmh",
    "is_raining", "is_cold", "is_hot", "is_windy", "highway_type", "road_category",
    "lanes", "maxspeed_kmh", "has_cycleway", "has_dedicated_bike_lane",
    "bike_lane_distance_m", "surface_quality", "is_lit", "edge_length_m",
    "distance_to_center_km", "orientation", "bike_count">>

LagColumns == <<"bike_count_lag_1h", "bike_count_lag_24h", "bike_count_rolling_7d">>

\* a data frame: the column names in order, and the rows
Frame(columns, rows) == [columns |-> columns, rows |-> rows]

\* the columns of the tables that hold text
TextColumns ==
  {"name", "highway_type", "road_category", "cycleway_type", "surface_quality",
   "bicycle_access", "orientation"}

\* the texts read_csv takes for a missing value
CsvNulls ==
  {"", "#N/A", "N/A", "NA", "NULL", "NaN", "None", "n/a", "nan", "null", "<NA>"}

\* pd.read_csv of the file to_csv wrote: a missing cell is written as the
\* empty text, and a text of CsvNulls is read as missing
ReadCsv(columns, rows) ==
  Frame(columns,
        [i \in 1..Len(rows) |->
           [c \in DOMAIN rows[i] |->
              IF c \in TextColumns /\ rows[i][c] \in CsvNulls THEN NA ELSE rows[i][c]]])

\* the category texts in the order of Python's string comparison (code
\* points: capitals before small letters)
SortedTexts ==
  <<"E", "N", "NE", "NW", "Residential", "S", "SE", "SW", "W", "arterial", "bike_path",
    "cycleway", "footway", "good", "local", "major", "medium", "motorway", "other",
    "path", "poor", "primary", "residential", "secondary", "service", "tertiary",
    "trunk", "unclassified", "unknown">>

\* LabelEncoder.fit: classes_ = np.unique(values), the distinct values sorted
Classes(values) ==
  LET S == Range(values)
      TextRank(x) == CHOOSE k \in 1..Len(SortedTexts) : SortedTexts[k] = x
  IN  [k \in 1..Cardinality(S) |->
         CHOOSE x \in S : Cardinality({y \in S : TextRank(y) < TextRank(x)}) = k - 1]

\* le.transform([x])[0] of a value of classes_: its position, from 0
Transform(classes, x) == (CHOOSE k \in 1..Len(classes) : classes[k] = x) - 1

CategoricalCols ==
  <<"highway_type", "road_category", "cycleway_type", "surface_quality",
    "bicycle_access", "orientation">>

ExcludeCols == {"edge_id", "timestamp", "bike_count"}

\* the cells of column c with fillna('unknown')
FilledColumn(frame, c) ==
  [i \in 1..Len(frame.rows) |-> FillNa(frame.rows[i][c], "unknown")]

\* the encoder loop: one fitted encoder per categorical column of the table
FitEncoders(frame) ==
  [c \in Range(CategoricalCols) \cap Range(frame.columns) |->
     Classes(FilledColumn(frame, c))]

\* the table with its categorical columns replaced by their codes
FitTransform(frame, encoders) ==
  Frame(frame.columns,
        [i \in 1..Len(frame.rows) |->
           [c \in DOMAIN frame.rows[i] |->
              IF c \in DOMAIN encoders
                THEN Transform(encoders[c], FillNa(frame.rows[i][c], "unknown"))
                ELSE frame.rows[i][c]]])

\* feature_cols = [col for col in df.columns if col not in exclude_cols]
FeatureCols(columns) == SelectSeq(columns, LAMBDA c : c \notin ExcludeCols)

\* the files of models/
ModelFile    == "best_model.joblib"
FeaturesFile == "feature_columns.json"
EncodersFile == "label_encoders.joblib"

\* joblib.dump / json.dump of one file
Dump(dir, file, content) == (file :> content) @@ dir

\* step 1: read the training table
Train1 ==
  /\ train_pc = "etape1"
  /\ AssemblyEnded
  /\ IF TrainingTable \notin written
       THEN \* read_csv raises FileNotFoundError
            /\ train_pc' = "crashed"
            /\ train_raised' = 1
            /\ UNCHANGED train_df
       ELSE /\ train_df' = ReadCsv(GridColumns \o LagColumns, final_df)
            /\ train_pc' = "etape2"
            /\ UNCHANGED train_raised
  /\ UNCHANGED <<label_encoders, feature_cols, df_valid, split_idx, models>>
  /\ UNCHANGED <<assembly, prediction, collection>>

\* step 2: encode the categorical columns, save the encoders, select the
\* feature columns
Train2 ==
  /\ train_pc = "etape2"
  /\ label_encoders' = FitEncoders(train_df)
  /\ train_df' = FitTransform(train_df, label_encoders')
  /\ models' = Dump(models, EncodersFile, label_encoders')
  /\ feature_cols' = FeatureCols(train_df.columns)
  /\ train_pc' = "etape3"
  /\ UNCHANGED <<train_raised, df_valid, split_idx>>
  /\ UNCHANGED <<assembly, prediction, collection>>

\* df_valid = df[df['bike_count'].notna()]: the observed rows, in table order
ValidRows(frame) == SelectSeq(frame.rows, LAMBDA r : r.bike_count # None)

\* int(len(X) * 0.8)
SplitIdx(n) == (n * 4) \div 5

\* step 3: the observed rows and the 80/20 split
Train3 ==
  /\ train_pc = "etape3"
  /\ df_valid' = ValidRows(train_df)
  /\ split_idx' = SplitIdx(Len(df_valid'))
  /\ train_pc' = "etape4"
  /\ UNCHANGED <<train_raised, train_df, label_encoders, feature_cols, models>>
  /\ UNCHANGED <<assembly, prediction, collection>>

\* the numeric feature columns in which a cell can be NaN
NullableCols ==
  {"temperature_c", "precipitation_mm", "wind_speed_kmh", "distance_to_center_km",
   "bike_count_lag_1h", "bike_count_lag_24h"}

\* the estimators raise ValueError on an empty training part and on NaN;
\* fillna(median) leaves a column NaN when no row holds a value in it
FitRaises(rows, split) ==
  \/ split = 0
  \/ \E c \in NullableCols : rows # <<>> /\ \A i \in 1..Len(rows) : rows[i][c] = None

\* steps 4 to 6: fit the three estimators and select the best one
Train4 ==
  /\ train_pc = "etape4"
  /\ IF FitRaises(df_valid, split_idx)
       THEN /\ train_pc' = "crashed"
            /\ train_raised' = 4
       ELSE /\ train_pc' = "etape7"
            /\ UNCHANGED train_raised
  /\ UNCHANGED <<train_df, label_encoders, feature_cols, df_valid, split_idx, models>>
  /\ UNCHANGED <<assembly, prediction, collection>>

\* step 7: save the model and the feature columns
Train7 ==
  /\ train_pc = "etape7"
  /\ models' = Dump(Dump(models, ModelFile, "model"), FeaturesFile, feature_cols)
  /\ train_pc' = "done"
  /\ UNCHANGED <<train_raised, train_df, label_encoders, feature_cols, df_valid, split_idx>>
  /\ UNCHANGED <<assembly, prediction, collection>>

\* ========================================================== predict_v3.py
\* the training script has ended
TrainingEnded == train_pc \in {"done", "crashed"}

\* the columns of edges_static_v3.gpkg, in the order the assembly selects them
StaticColumns ==
  <<"osm_id", "name", "highway_type", "road_category", "lanes", "maxspeed_kmh",
    "is_oneway", "has_cycleway", "cycleway_type", "has_dedicated_bike_lane",
    "bike_lane_distance_m", "surface_quality", "bicycle_access", "is_lit",
    "edge_length_m", "distance_to_center_km", "orientation", "geometry",
    "has_real_sensor">>

\* gpd.read_file of the table to_file wrote: the texts are kept as written
ReadFile(columns, rows) == Frame(columns, rows)

\* a datetime: the hour counted from the start of the collection period, and
\* the minute
At(hour, minute) == [hour |-> hour, minute |-> minute]

\* pd.to_datetime of a timestamp of the weather feed
ToDatetime(ts) == At(ts, 0)

\* abs((a - b).total_seconds()), in minutes
TimeDiff(a, b) ==
  LET d == (a.hour * 60 + a.minute) - (b.hour * 60 + b.minute)
  IN  IF d < 0 THEN -d ELSE d

\* the record used when no weather file is found
DefaultWeather(target) ==
  [timestamp |-> target, temperature_c |-> 15, precipitation_mm |-> 0,
   wind_speed_kmh |-> 10, is_raining |-> FALSE]

\* weather_df of the prediction script, with its time_diff column
PredictionWeather(feed, found, target) ==
  LET loaded == IF found
                  THEN [i \in 1..Len(feed) |->
                          [feed[i] EXCEPT !.timestamp = ToDatetime(feed[i].timestamp)]]
                  ELSE <<DefaultWeather(target)>>
  IN  [i \in 1..Len(loaded) |->
         loaded[i] @@ [time_diff |-> TimeDiff(loaded[i].timestamp, target)]]

\* Series.idxmin(): the first row that holds the smallest time_diff
IdxMinDiff(wdf) ==
  SetMin({i \in 1..Len(wdf) : \A j \in 1..Len(wdf) : wdf[i].time_diff <= wdf[j].time_diff})

\* int(x) of a bool
AsInt(b) == IF b THEN 1 ELSE 0

\* mutant: the morning rush hour ends at 8
PredictTemporalShortRush(target) ==
  [hour                 |-> Hour(target.hour),
   day_of_week          |-> Weekday(target.hour),
   is_weekend           |-> AsInt(Weekday(target.hour) >= 5),
   is_rush_hour_morning |-> AsInt(Hour(target.hour) \in {7, 8}),
   is_rush_hour_evening |-> AsInt(Hour(target.hour) \in {17, 18, 19})]

\* the calendar columns of the prediction frame
PredictTemporal(target) ==
  [hour                 |-> Hour(target.hour),
   day_of_week          |-> Weekday(target.hour),
   is_weekend           |-> AsInt(Weekday(target.hour) >= 5),
   is_rush_hour_morning |-> AsInt(Hour(target.hour) \in {7, 8, 9}),
   is_rush_hour_evening |-> AsInt(Hour(target.hour) \in {17, 18, 19})]

\* the weather columns of the prediction frame; a comparison with NaN is False
PredictMeteo(weather_row) ==
  [temperature_c    |-> weather_row.temperature_c,
   precipitation_mm |-> weather_row.precipitation_mm,
   wind_speed_kmh   |-> weather_row.wind_speed_kmh,
   is_raining       |-> AsInt(weather_row.is_raining),
   is_cold  |-> AsInt(NotNa(weather_row.temperature_c) /\ weather_row.temperature_c < 5),
   is_hot   |-> AsInt(NotNa(weather_row.temperature_c) /\ weather_row.temperature_c > 30),
   is_windy |-> AsInt(NotNa(weather_row.wind_speed_kmh) /\ weather_row.wind_speed_kmh > 30)]

\* edges[name] = value for every name of the record values: a new column goes
\* to the end of the frame, an existing one is overwritten in place
Assign(frame, names, values) ==
  Frame(frame.columns \o SelectSeq(names, LAMBDA c : c \notin Range(frame.columns)),
        [i \in 1..Len(frame.rows) |->
           [c \in DOMAIN frame.rows[i] \cup Range(names) |->
              IF c \in Range(names) THEN values[c] ELSE frame.rows[i][c]]])

\* the code of a category never seen at training
UNSEEN == -1

\* mutant: a category never seen at training gets the code 0
EncodeUnseenZero(classes, x) ==
  IF FillNa(x, "unknown") \in Range(classes)
    THEN Transform(classes, FillNa(x, "unknown")) ELSE 0

\* fillna('unknown'), then the lambda of the encoding loop
Encode(classes, x) ==
  IF FillNa(x, "unknown") \in Range(classes)
    THEN Transform(classes, FillNa(x, "unknown")) ELSE UNSEEN

\* the encoding loop over the categorical columns
EncodeColumns(frame, encoders) ==
  Frame(frame.columns,
        [i \in 1..Len(frame.rows) |->
           [c \in DOMAIN frame.rows[i] |->
              IF c \in Range(CategoricalCols) /\ c \in Range(frame.columns)
                 /\ c \in DOMAIN encoders
                THEN Encode(encoders[c], frame.rows[i][c])
                ELSE frame.rows[i][c]]])

\* the features the frame lacks are added with the value 0
WithMissingFeatures(frame, features) ==
  LET missing == SelectSeq(features, LAMBDA c : c \notin Range(frame.columns))
  IN  Assign(frame, missing, [c \in Range(missing) |-> 0])

\* the median of the values a column holds (the middle one, or the mean of
\* the two middle ones), 0 for a column without value: fillna(median), then
\* fillna(0)
FillValue(rows, c) ==
  LET held == Sorted(SelectSeq([i \in 1..Len(rows) |-> rows[i][c]], LAMBDA v : v # None))
      n    == Len(held)
  IN  IF n = 0 THEN 0
      ELSE IF n % 2 = 1 THEN held[(n + 1) \div 2]
      ELSE IF held[n \div 2] = held[n \div 2 + 1] THEN held[n \div 2]
      ELSE Fraction(held[n \div 2] + held[n \div 2 + 1], 2)

\* mutant: the columns are taken in the order of the frame
SelectFeaturesFrameOrder(frame, features) ==
  LET kept == SelectSeq(frame.columns, LAMBDA c : c \in Range(features))
  IN  Frame(kept,
            [i \in 1..Len(frame.rows) |->
               [c \in Range(kept) |->
                  IF c \in NullableCols /\ frame.rows[i][c] = None
                    THEN FillValue(frame.rows, c) ELSE frame.rows[i][c]]])

\* X = edges[feature_cols] with the NaN cells filled
SelectFeatures(frame, features) ==
  Frame(features,
        [i \in 1..Len(frame.rows) |->
           [c \in Range(features) |->
              IF c \in NullableCols /\ frame.rows[i][c] = None
                THEN FillValue(frame.rows, c) ELSE frame.rows[i][c]]])

\* step 1: load the model, the feature columns and the encoders
Predict1 ==
  /\ predict_pc = "etape1"
  /\ TrainingEnded
  /\ IF ModelFile \notin DOMAIN models
       THEN /\ predict_pc' = "exited"
            /\ predict_raised' = 1
       ELSE /\ predict_pc' = "etape2"
            /\ UNCHANGED predict_raised
  /\ UNCHANGED <<target_datetime, edges_pred, closest_weather, X>>
  /\ UNCHANGED <<assembly, training, collection>>

\* step 2: load the static table
Predict2 ==
  /\ predict_pc = "etape2"
  /\ IF StaticTable \notin written
       THEN /\ predict_pc' = "exited"
            /\ predict_raised' = 2
            /\ UNCHANGED edges_pred
       ELSE /\ edges_pred' = ReadFile(StaticColumns, edges_static)
            /\ predict_pc' = "etape3"
            /\ UNCHANGED predict_raised
  /\ UNCHANGED <<target_datetime, closest_weather, X>>
  /\ UNCHANGED <<assembly, training, collection>>

\* a measure that is null in every record makes an object column of None,
\* which the format ':.1f' of the printed report rejects
FormatRaises(wdf) ==
  \E c \in {"temperature_c", "precipitation_mm", "wind_speed_kmh"} :
    \A i \in 1..Len(wdf) : wdf[i][c] = None

\* step 3: load the weather records and select the closest one
Predict3 ==
  /\ predict_pc = "etape3"
  /\ IF WeatherFile \in files /\ (weather_data = <<>> \/ FormatRaises(weather_data))
       THEN \* pd.DataFrame([]) has no 'timestamp' column: KeyError
            /\ predict_pc' = "crashed"
            /\ predict_raised' = 3
            /\ UNCHANGED closest_weather
       ELSE /\ LET wdf == PredictionWeather(weather_data, WeatherFile \in files,
                                            target_datetime)
               IN  closest_weather' = wdf[IdxMinDiff(wdf)]
            /\ predict_pc' = "etape4"
            /\ UNCHANGED predict_raised
  /\ UNCHANGED <<target_datetime, edges_pred, X>>
  /\ UNCHANGED <<assembly, training, collection>>

CalendarNames ==
  <<"hour", "day_of_week", "is_weekend", "is_rush_hour_morning", "is_rush_hour_evening">>

\* step 4: the calendar columns
Predict4 ==
  /\ predict_pc = "etape4"
  /\ edges_pred' = Assign(edges_pred, CalendarNames, PredictTemporal(target_datetime))
  /\ predict_pc' = "etape5"
  /\ UNCHANGED <<predict_raised, target_datetime, closest_weather, X>>
  /\ UNCHANGED <<assembly, training, collection>>

WeatherNames ==
  <<"temperature_c", "precipitation_mm", "wind_speed_kmh", "is_raining", "is_cold",
    "is_hot", "is_windy">>

\* step 5: the weather columns
Predict5 ==
  /\ predict_pc = "etape5"
  /\ edges_pred' = Assign(edges_pred, WeatherNames, PredictMeteo(closest_weather))
  /\ predict_pc' = "etape6"
  /\ UNCHANGED <<predict_raised, target_datetime, closest_weather, X>>
  /\ UNCHANGED <<assembly, training, collection>>

\* step 6: encode the categorical columns
Predict6 ==
  /\ predict_pc = "etape6"
  /\ edges_pred' = EncodeColumns(edges_pred, models[EncodersFile])
  /\ predict_pc' = "etape7"
  /\ UNCHANGED <<predict_raised, target_datetime, closest_weather, X>>
  /\ UNCHANGED <<assembly, training, collection>>

\* step 7: the feature matrix
Predict7 ==
  /\ predict_pc = "etape7"
  /\ edges_pred' = WithMissingFeatures(edges_pred, models[FeaturesFile])
  /\ X' = SelectFeatures(edges_pred', models[FeaturesFile])
  /\ predict_pc' = "etape8"
  /\ UNCHANGED <<predict_raised, target_datetime, closest_weather>>
  /\ UNCHANGED <<assembly, training, collection>>

\* steps 8 and 9: predict and save
Predict8 ==
  /\ predict_pc = "etape8"
  /\ predict_pc' = "done"
  /\ UNCHANGED <<predict_raised, target_datetime, edges_pred, closest_weather, X>>
  /\ UNCHANGED <<assembly, training, collection>>

\* ================================================= main_data_collection.py
\* the sources in the order main() collects them
Sources == <<"osm_network", "bike_infrastructure", "bike_counters", "weather">>

\* what the main() of a collector does: it returns the path of the file it
\* wrote, returns None, or raises an Exception
Outcomes == {"path", "nothing", "raises"}

\* the entry one try block stores for its source
Entry(source, outcome) ==
  IF outcome = "raises"
    THEN [source |-> source, status |-> "error", file |-> NA]
    ELSE [source |-> source,
          status |-> IF outcome = "path" THEN "success" ELSE "failed",
          file   |-> IF outcome = "path" THEN source ELSE NA]

\* results["sources"][entry.source] = entry: a new key goes to the end
Store(entries, entry) ==
  IF \E i \in 1..Len(entries) : entries[i].source = entry.source
    THEN [i \in 1..Len(entries) |->
            IF entries[i].source = entry.source THEN entry ELSE entries[i]]
    ELSE Append(entries, entry)

\* the positions of main(): the four try blocks, then the summary
Position(k) == <<"1/4", "2/4", "3/4", "4/4", "resume">>[k]

\* mutant: an exception of the collector ends main()
CollectUncaught(k) ==
  /\ collect_pc = Position(k)
  /\ called' = Append(called, Sources[k])
  /\ IF collectors[Sources[k]] = "raises"
       THEN /\ collect_pc' = "crashed"
            /\ UNCHANGED results
       ELSE /\ results' = Store(results, Entry(Sources[k], collectors[Sources[k]]))
            /\ collect_pc' = Position(k + 1)
  /\ UNCHANGED <<collectors, summary>>
  /\ UNCHANGED <<assembly, training, prediction>>

\* the k-th try block of main(): call the collector, store its entry
Collect(k) ==
  /\ collect_pc = Position(k)
  /\ called' = Append(called, Sources[k])
  /\ results' = Store(results, Entry(Sources[k], collectors[Sources[k]]))
  /\ collect_pc' = Position(k + 1)
  /\ UNCHANGED <<collectors, summary>>
  /\ UNCHANGED <<assembly, training, prediction>>

CollectOsm == Collect(1)

CollectInfrastructure == Collect(2)

CollectCounters == Collect(3)

CollectWeather == Collect(4)

\* the final summary: collection_summary.json
Resume ==
  /\ collect_pc = "resume"
  /\ summary' = results
  /\ collect_pc' = "done"
  /\ UNCHANGED <<collectors, called, results>>
  /\ UNCHANGED <<assembly, training, prediction>>

\* ==================================================================== Init
Unset ==
  /\ pc = "etape1"
  /\ raised = 0
  /\ sensor_to_edge = <<>>
  /\ edges_with_sensors = <<>>
  /\ all_bike_records = <<>>
  /\ bike_df = <<>>
  /\ bike_lane = <<>>
  /\ weather_df = <<>>
  /\ edges_static = <<>>
  /\ written = {}
  /\ timestamps = <<>>
  /\ bike_lookup = <<>>
  /\ final_df = <<>>

\* every single-file feed is there, with a plain road network and one facility
AllFeeds ==
  /\ files = AllFiles
  /\ edges_gdf = Edges
  /\ lane_distances = OneLane

\* every sensor case, a fixed count feed
InitMatch ==
  /\ AllFeeds
  /\ \E cfg \in [CounterIds -> SensorCases] :
       /\ sensors_info = [c \in CounterIds |-> cfg[c].info]
       /\ distances = [c \in CounterIds |-> cfg[c].dist]
  /\ bike_counter_files =
       <<CountFile(<<[counter_id |-> "c1", timestamp |-> 1, count |-> 3],
                     [counter_id |-> "c2", timestamp |-> 1, count |-> 5]>>)>>
  /\ weather_data = FullWeather

\* the count records of the grid family: c1 reports 0 or 3, c2 reports 5, and
\* a counter the metadata does not know reports 3
GridRecords ==
  CountRecords({"c1"}, 1..MaxTime, {0, 3})
  \cup CountRecords({"c2"}, 1..MaxTime, {5})
  \cup CountRecords({UnknownCounter}, 1..MaxTime, {3})

\* every count feed, a few sensor layouts
InitGrid ==
  /\ AllFeeds
  /\ \E cfg \in {<<OnFirstEdge, OnFirstEdge>>, <<OnFirstEdge, OnSecondEdge>>,
                 <<OnSecondEdge, TooFar>>, <<OnFirstEdge, NoPoint>>} :
       /\ sensors_info = [c \in CounterIds |-> IF c = "c1" THEN cfg[1].info ELSE cfg[2].info]
       /\ distances = [c \in CounterIds |-> IF c = "c1" THEN cfg[1].dist ELSE cfg[2].dist]
  /\ \E records \in SeqsUpTo(GridRecords, MaxRecords) :
       bike_counter_files = <<CountFile(records)>>
  /\ weather_data = FullWeather

\* every weather series, in any feed order; one sensor per edge
InitWeather ==
  /\ AllFeeds
  /\ sensors_info = [c \in CounterIds |-> LyonPoint]
  /\ distances = [c \in CounterIds |-> IF c = "c1" THEN OnFirstEdge.dist ELSE OnSecondEdge.dist]
  /\ \E hours \in SUBSET (1..MaxTime) :
       bike_counter_files =
         <<CountFile([i \in 1..Cardinality(hours) |->
                        [counter_id |-> "c1", timestamp |-> SortedSeq(hours)[i], count |-> 3]])>>
  /\ \E ts \in SeqsUpTo(0..(MaxTime + 1), MaxWeather) :
       weather_data = [i \in 1..Len(ts) |-> Measure(ts[i], 10 + i, 10)]

\* long hourly series: c1 reports every hour, c2 skips every gap-th hour
InitLag ==
  /\ AllFeeds
  /\ sensors_info = [c \in CounterIds |-> LyonPoint]
  /\ distances = [c \in CounterIds |-> IF c = "c1" THEN OnFirstEdge.dist ELSE OnSecondEdge.dist]
  /\ \E n \in 1..MaxHours, step \in 1..3, gap \in {2, 3, 5} :
       bike_counter_files =
         <<CountFile(
             [i \in 1..n |-> [counter_id |-> "c1", timestamp |-> i, count |-> (i * step) % 7]]
             \o SelectSeq([i \in 1..n |-> [counter_id |-> "c2", timestamp |-> i, count |-> 100 + i]],
                          LAMBDA r : r.timestamp % gap # 0))>>
  /\ weather_data = <<Measure(0, 10, 10)>>

\* series for the rolling mean: three hours on both edges, or more than a
\* week (more rows than the window) on the first edge, c2 standing too far
InitRolling ==
  /\ AllFeeds
  /\ sensors_info = [c \in CounterIds |-> LyonPoint]
  /\ weather_data = <<Measure(0, 10, 10)>>
  /\ \/ /\ distances = [c \in CounterIds |->
                           IF c = "c1" THEN OnFirstEdge.dist ELSE OnSecondEdge.dist]
        /\ bike_counter_files =
             <<CountFile(<<[counter_id |-> "c1", timestamp |-> 1, count |-> 10],
                           [counter_id |-> "c1", timestamp |-> 2, count |-> 20],
                           [counter_id |-> "c2", timestamp |-> 2, count |-> 7],
                           [counter_id |-> "c1", timestamp |-> 3, count |-> 30]>>)>>
     \/ /\ distances = [c \in CounterIds |->
                           IF c = "c1" THEN OnFirstEdge.dist ELSE TooFar.dist]
        /\ \E n \in (ROLLING_WINDOW + 1)..MaxRollHours, gap \in {2, 5} :
             bike_counter_files =
               <<CountFile(
                   SelectSeq([i \in 1..n |-> [counter_id |-> "c1", timestamp |-> i, count |-> i]],
                             LAMBDA r : r.timestamp < ROLLING_WINDOW \/ r.timestamp % gap # 0))>>

\* every directory of up to MaxFiles count files, damaged ones included
InitFiles ==
  /\ AllFeeds
  /\ sensors_info = [c \in CounterIds |-> LyonPoint]
  /\ distances = [c \in CounterIds |-> IF c = "c1" THEN OnFirstEdge.dist ELSE OnSecondEdge.dist]
  /\ bike_counter_files \in SeqsUpTo(FileKinds, MaxFiles)
  /\ weather_data = FullWeather

\* every facility layer of up to MaxLanes facilities, or none; c2 may stand
\* too far from any edge
InitInfra ==
  /\ files \in {AllFiles, AllFiles \ {InfraFile}}
  /\ edges_gdf = Edges
  /\ \E n \in 0..MaxLanes : lane_distances \in [1..Len(Edges) -> [1..n -> LaneDistances]]
  /\ sensors_info = [c \in CounterIds |-> LyonPoint]
  /\ \E second \in {OnSecondEdge, TooFar} :
       distances = [c \in CounterIds |-> IF c = "c1" THEN OnFirstEdge.dist ELSE second.dist]
  /\ bike_counter_files = <<CountFile(<<[counter_id |-> "c1", timestamp |-> 1, count |-> 3]>>)>>
  /\ weather_data = FullWeather

\* every geometry and every tagging of the first way, next to a second way
\* that carries every tag or only the defaulted ones; the sensor stands on
\* the second way, and its distance to an empty geometry is NaN
InitStatic ==
  /\ files = AllFiles
  /\ lane_distances = OneLane
  /\ \/ \E g \in Geometries :
          edges_gdf = <<Way(101, g, PlainTags), Way(102, Straight, PlainTags)>>
     \/ \E t \in TagVariants, u \in {PlainTags, BareTags} :
          edges_gdf = <<Way(101, Straight, t), Way(102, Straight, u)>>
  /\ sensors_info = [c \in CounterIds |-> LyonPoint]
  /\ distances = [c \in CounterIds |->
                    <<IF edges_gdf[1].geometry.coords = 0 THEN None ELSE 501,
                      IF c = "c1" THEN 499 ELSE 501>>]
  /\ bike_counter_files = <<CountFile(<<[counter_id |-> "c1", timestamp |-> 1, count |-> 3]>>)>>
  /\ weather_data = FullWeather

\* any of the feeds may be missing
InitMissing ==
  /\ files \in SUBSET AllFiles
  /\ edges_gdf = Edges
  /\ lane_distances = OneLane
  /\ sensors_info = [c \in CounterIds |-> LyonPoint]
  /\ distances = [c \in CounterIds |-> IF c = "c1" THEN OnFirstEdge.dist ELSE OnSecondEdge.dist]
  /\ \E records \in SeqsUpTo(CountRecords({"c1"}, 1..2, {3}), 2) :
       bike_counter_files \in {<<>>, <<CountFile(records)>>}
  /\ weather_data = FullWeather

\* the training script before its first statement, or not launched ("off")
NoTraining(position) ==
  /\ train_pc = position
  /\ train_raised = 0
  /\ train_df = <<>>
  /\ label_encoders = <<>>
  /\ feature_cols = <<>>
  /\ df_valid = <<>>
  /\ split_idx = 0
  /\ models = <<>>

\* the prediction script before its first statement, or not launched
NoPrediction(position, target) ==
  /\ predict_pc = position
  /\ predict_raised = 0
  /\ target_datetime = target
  /\ edges_pred = <<>>
  /\ closest_weather = <<>>
  /\ X = <<>>

\* the orchestrator before its first statement, or not launched
NoCollection(position, outcomes) ==
  /\ collect_pc = position
  /\ collectors = outcomes
  /\ called = <<>>
  /\ results = <<>>
  /\ summary = <<>>

\* the dataset assembly alone
AssemblyOnly ==
  /\ NoTraining("off")
  /\ NoPrediction("off", At(0, 0))
  /\ NoCollection("off", <<>>)

Init ==
  /\ Unset
  /\ AssemblyOnly
  /\ (\/ InitMatch \/ InitGrid \/ InitWeather \/ InitLag \/ InitRolling
      \/ InitFiles \/ InitInfra \/ InitStatic \/ InitMissing)

Next ==
  \/ Etape1 \/ Etape2 \/ Etape3 \/ Etape4 \/ Etape5
  \/ Etape6 \/ Etape7 \/ Etape8 \/ Etape9 \/ Etape10

Spec == Init /\ [][Next]_vars

\* the runs in which feeds may be missing; the interpreter runs the script
\* statement after statement until it ends
InitFair == Unset /\ AssemblyOnly /\ InitMissing

FairSpec == InitFair /\ [][Next]_vars /\ WF_vars(Next)

\* ---- the assembly, then the training script, then the prediction script
\* an hourly count feed of one counter over the hours 1..n
HourlyFeed(counter, n) ==
  [i \in 1..n |-> [counter_id |-> counter, timestamp |-> i, count |-> (i * 3) % 7]]

\* the distance 0.1 m of a sensor to a geometry: NaN to an empty one
DistanceTo(geom, d) == IF geom.coords = 0 THEN None ELSE d

\* the sensors: c1 on the first edge, c2 on the second edge or too far
TwoSensors(second) ==
  /\ sensors_info = [c \in CounterIds |-> LyonPoint]
  /\ distances = [c \in CounterIds |->
                    IF c = "c1" THEN <<499, DistanceTo(edges_gdf[2].geometry, 501)>>
                    ELSE <<501, DistanceTo(edges_gdf[2].geometry, second)>>]

\* a day and an hour of counts of c1, so that the 24-hour lag holds a value
DayOfCounts ==
  /\ files = AllFiles
  /\ lane_distances = OneLane
  /\ bike_counter_files = <<CountFile(HourlyFeed("c1", LAG_24H + 1))>>

\* every target hour of a week
InitCalendar ==
  /\ DayOfCounts
  /\ edges_gdf = Edges
  /\ TwoSensors(501)
  /\ weather_data = FullWeather
  /\ \E h \in 0..MaxTargetHour : NoPrediction("etape1", At(h, 0))

\* every short weather series in any order, targets on and between the hours
InitClosest ==
  /\ DayOfCounts
  /\ edges_gdf = Edges
  /\ TwoSensors(501)
  /\ \E ts \in SeqsUpTo(0..MaxSeriesHour, MaxSeries) :
       weather_data = [i \in 1..Len(ts) |-> Measure(ts[i], 10 + i, 10)]
  /\ \E h \in 0..MaxSeriesHour, m \in {0, 30} : NoPrediction("etape1", At(h, m))

\* temperatures and wind speeds around the thresholds, and missing ones
Temperatures == {4, 5, 7, 9, 10, 25, 26, 30, 31, None}

WindSpeeds == {20, 21, 30, 31, None}

\* a plain record for the first half of the day, then every record
InitFlags ==
  /\ DayOfCounts
  /\ edges_gdf = Edges
  /\ TwoSensors(501)
  /\ \E t \in Temperatures, w \in WindSpeeds :
       weather_data = <<Measure(0, 11, 10), Measure(13, t, w)>>
  /\ NoPrediction("etape1", At(20, 0))

\* the taggings and geometries of two ways, the second one with or without
\* a sensor
InitEncoding ==
  /\ DayOfCounts
  /\ \E h1 \in {"residential", "primary", "unknown"}, h2 \in HighwayTags,
        u2 \in {"asphalt", "gravel", NA}, g2 \in {Straight, Line(2, 180), EmptyLine} :
       edges_gdf = <<Way(101, Straight, [PlainTags EXCEPT !.highway = h1]),
                     Way(102, g2, [PlainTags EXCEPT !.highway = h2, !.surface = u2])>>
  /\ \E second \in {500, 501} :
       /\ TwoSensors(second)
  /\ weather_data = FullWeather
  /\ NoPrediction("etape1", At(8, 0))

\* two edges with a sensor each, the second sensor counting a few hours
InitSplit ==
  /\ files = AllFiles
  /\ lane_distances = OneLane
  /\ \E n \in 0..MaxSecondHours :
       bike_counter_files =
         <<CountFile(HourlyFeed("c1", LAG_24H + 1)), CountFile(HourlyFeed("c2", n))>>
  /\ edges_gdf = Edges
  /\ TwoSensors(500)
  /\ weather_data = FullWeather
  /\ NoPrediction("etape1", At(8, 0))

InitModel ==
  /\ Unset
  /\ NoTraining("etape1")
  /\ NoCollection("off", <<>>)
  /\ (InitCalendar \/ InitClosest \/ InitFlags \/ InitEncoding \/ InitSplit)

NextModel ==
  \/ Next
  \/ Train1 \/ Train2 \/ Train3 \/ Train4 \/ Train7
  \/ Predict1 \/ Predict2 \/ Predict3 \/ Predict4
  \/ Predict5 \/ Predict6 \/ Predict7 \/ Predict8

ModelSpec == InitModel /\ [][NextModel]_vars

\* ---- the orchestrator alone, every behaviour of the four collectors
InitCollect ==
  /\ Unset
  /\ AllFeeds
  /\ TwoSensors(500)
  /\ bike_counter_files = <<>>
  /\ weather_data = FullWeather
  /\ NoTraining("off")
  /\ NoPrediction("off", At(0, 0))
  /\ \E outcomes \in [Range(Sources) -> Outcomes] : NoCollection(Position(1), outcomes)

NextCollect ==
  \/ CollectOsm \/ CollectInfrastructure \/ CollectCounters \/ CollectWeather
  \/ Resume

CollectSpec == InitCollect /\ [][NextCollect]_vars

\* ============================================================== properties
\* ---- vocabulary of the claims, stated on the input feeds
RECURSIVE SumCounts(_, _)
SumCounts(records, idx) ==
  IF idx = {} THEN 0
  ELSE LET i == CHOOSE j \in idx : TRUE
       IN  records[i].count + SumCounts(records, idx \ {i})

\* the grid exists: ETAPE 8 has run
GridBuilt == pc \in {"etape9", "etape10", "done"} \/ (pc = "crashed" /\ raised = 9)

\* the matcher has run to its end
Matched ==
  \/ pc \notin {"etape1", "etape2", "etape3", "crashed", "exited"}
  \/ pc \in {"crashed", "exited"} /\ raised > 3

NullPoint(c) == sensors_info[c].lat = None \/ sensors_info[c].lon = None

NearestDistance(c) == SetMin(Range(distances[c]) \ {None})

\* the sensor is known to the metadata, has a point and stands within 50 m
ValidAssociation(c) ==
  /\ c \in DOMAIN sensors_info
  /\ ~NullPoint(c)
  /\ NearestDistance(c) <= MAX_DISTANCE * 10

\* the edges that carry at least one associated sensor
EdgesCarryingSensor ==
  {edges_gdf[i].osm_id : i \in {j \in 1..Len(edges_gdf) :
      \E c \in DOMAIN sensor_to_edge : sensor_to_edge[c].edge_id = edges_gdf[j].osm_id}}

RetainedTimestamps == {bike_df[i].timestamp : i \in 1..Len(bike_df)}

RowKeys == {<<final_df[i].edge_id, final_df[i].timestamp>> : i \in 1..Len(final_df)}

\* the count records of the feed that fall on edge e at hour t
RecordsOn(e, t) ==
  {i \in 1..Len(all_bike_records) :
     /\ all_bike_records[i].timestamp = t
     /\ all_bike_records[i].counter_id \in DOMAIN sensor_to_edge
     /\ sensor_to_edge[all_bike_records[i].counter_id].edge_id = e}

\* C1: the grid has exactly |edges with sensors| x |distinct retained
\* timestamps| rows, and its keys are exactly the pairs of that product.
C1_GridSize ==
  GridBuilt =>
    /\ Len(final_df) = Cardinality(EdgesCarryingSensor) * Cardinality(RetainedTimestamps)
    /\ RowKeys = EdgesCarryingSensor \X RetainedTimestamps

C1_Witness ==
  /\ pc = "done"
  /\ Cardinality(EdgesCarryingSensor) = 2
  /\ Cardinality(RetainedTimestamps) = 2
  /\ \E i \in 1..Len(final_df) : final_df[i].bike_count = None

\* C2: no two rows of the grid share the same (edge id, timestamp) key.
C2_NoDuplicateKey ==
  GridBuilt =>
    \A i, j \in 1..Len(final_df) :
      (final_df[i].edge_id = final_df[j].edge_id
         /\ final_df[i].timestamp = final_df[j].timestamp) => i = j

\* two sensors on one edge, two count records for the same edge and hour
C2_Witness ==
  /\ pc = "done"
  /\ \E c, d \in DOMAIN sensor_to_edge :
       c # d /\ sensor_to_edge[c].edge_id = sensor_to_edge[d].edge_id
  /\ \E i, j \in 1..Len(bike_df) :
       i # j /\ bike_df[i].counter_id = bike_df[j].counter_id
             /\ bike_df[i].timestamp = bike_df[j].timestamp

\* C3: a sensor with a known location is associated iff its nearest edge is
\* at most 50 m away (50.0 m included), and then with a nearest edge.
C3_ThresholdInclusive ==
  Matched =>
    \A c \in DOMAIN sensors_info :
      ~NullPoint(c) =>
        /\ (c \in DOMAIN sensor_to_edge) <=> (NearestDistance(c) <= MAX_DISTANCE * 10)
        /\ c \in DOMAIN sensor_to_edge =>
             \E i \in 1..Len(edges_gdf) :
               /\ edges_gdf[i].osm_id = sensor_to_edge[c].edge_id
               /\ distances[c][i] = NearestDistance(c)

\* one sensor at exactly 50.0 m is associated, the other at 50.1 m is not
C3_Witness ==
  /\ pc = "etape4"
  /\ \E c, d \in DOMAIN sensors_info :
       /\ ~NullPoint(c) /\ NearestDistance(c) = 500 /\ c \in DOMAIN sensor_to_edge
       /\ ~NullPoint(d) /\ NearestDistance(d) = 501 /\ d \notin DOMAIN sensor_to_edge

\* C4: a sensor with a null point is skipped: it gets no association, the
\* matcher does not raise, and every other sensor is still processed.
C4_NullPointSkipped ==
  ((Matched \/ raised = 3) /\ \E c \in DOMAIN sensors_info : NullPoint(c)) =>
    /\ raised # 3
    /\ \A c \in DOMAIN sensors_info : NullPoint(c) => c \notin DOMAIN sensor_to_edge
    /\ \A c \in DOMAIN sensors_info :
         (~NullPoint(c) /\ NearestDistance(c) <= MAX_DISTANCE * 10)
           => c \in DOMAIN sensor_to_edge

\* C5: where an (edge, timestamp) pair has a retained count record, the row's
\* bike_count is the sum of the counts of all records on that edge at that hour.
C5_SummedCount ==
  GridBuilt =>
    \A i \in 1..Len(final_df) :
      RecordsOn(final_df[i].edge_id, final_df[i].timestamp) # {} =>
        final_df[i].bike_count =
          SumCounts(all_bike_records, RecordsOn(final_df[i].edge_id, final_df[i].timestamp))

\* two sensors on one edge report 3 and 5 for the same hour: the row holds 8
C5_Witness ==
  /\ pc = "done"
  /\ \E i \in 1..Len(final_df) :
       /\ final_df[i].bike_count = 8
       /\ \E a, b \in RecordsOn(final_df[i].edge_id, final_df[i].timestamp) :
            /\ all_bike_records[a].counter_id # all_bike_records[b].counter_id
            /\ all_bike_records[a].count = 3
            /\ all_bike_records[b].count = 5

\* C6: a row's bike_count is null exactly when no retained count record exists
\* for its (edge, timestamp) pair, an observed 0 stays 0, and with one
\* sensor-carrying edge, a 3-hour period and counts for hours 1 and 3 only
\* the grid has 3 rows, the hour-2 row null, the others the observed counts.
C6_NullOnlyWhenUnobserved ==
  pc = "done" =>
    /\ \A i \in 1..Len(final_df) :
         (final_df[i].bike_count = None)
           <=> (RecordsOn(final_df[i].edge_id, final_df[i].timestamp) = {})
    /\ (/\ Cardinality(EdgesCarryingSensor) = 1
        /\ RetainedTimestamps = {1, 3}
        /\ {1, 2, 3} \subseteq {weather_df[i].timestamp : i \in 1..Len(weather_df)})
         => /\ Len(final_df) = 3
            /\ \A i \in 1..Len(final_df) :
                 /\ final_df[i].timestamp = 2 => final_df[i].bike_count = None
                 /\ final_df[i].timestamp # 2 =>
                      final_df[i].bike_count =
                        SumCounts(all_bike_records,
                                  RecordsOn(final_df[i].edge_id, final_df[i].timestamp))

\* C7: count records whose sensor has no valid association (null point, too
\* far, unknown to the metadata) are dropped, and only edges that carry an
\* associated sensor appear in the grid.
C7_UnassociatedDropped ==
  /\ pc \in {"etape5", "etape6", "etape7", "etape8", "etape9", "etape10", "done"} =>
       /\ \A i \in 1..Len(bike_df) : ValidAssociation(bike_df[i].counter_id)
       /\ Len(bike_df) = Cardinality({i \in 1..Len(all_bike_records) :
                                        ValidAssociation(all_bike_records[i].counter_id)})
  /\ GridBuilt =>
       \A i \in 1..Len(final_df) :
         /\ \E c \in DOMAIN sensors_info :
              /\ ValidAssociation(c)
              /\ \E j \in 1..Len(edges_gdf) :
                   /\ edges_gdf[j].osm_id = final_df[i].edge_id
                   /\ distances[c][j] = NearestDistance(c)
         /\ final_df[i].bike_count # None =>
              final_df[i].bike_count =
                SumCounts(all_bike_records,
                  {k \in 1..Len(all_bike_records) :
                     /\ ValidAssociation(all_bike_records[k].counter_id)
                     /\ all_bike_records[k].timestamp = final_df[i].timestamp
                     /\ sensor_to_edge[all_bike_records[k].counter_id].edge_id
                          = final_df[i].edge_id})

\* records of a sensor without point and of an unknown counter were in the
\* feed, and the grid was still built from the remaining record
C7_Witness ==
  /\ pc = "done"
  /\ \E c \in DOMAIN sensors_info : NullPoint(c)
  /\ \E i, j \in 1..Len(all_bike_records) :
       /\ all_bike_records[i].counter_id \notin DOMAIN sensors_info
       /\ all_bike_records[j].counter_id \in DOMAIN sensor_to_edge
       /\ all_bike_records[i].timestamp = all_bike_records[j].timestamp
       /\ all_bike_records[i].count > 0
  /\ Len(final_df) > 0

\* the weather record of the series that the claim selects for hour t
HasPrior(t) == \E i \in 1..Len(weather_data) : weather_data[i].timestamp <= t

NearestPriorTime(t) ==
  SetMax({weather_data[i].timestamp : i \in {j \in 1..Len(weather_data) :
                                                weather_data[j].timestamp <= t}})

\* C8: where the weather series has a record at or before a grid timestamp t,
\* the rows at t carry the fields of the record at exactly t if there is one,
\* otherwise of the record with the greatest timestamp below t.
C8_NearestPriorWeather ==
  GridBuilt =>
    \A i \in 1..Len(final_df) :
      HasPrior(final_df[i].timestamp) =>
        \E w \in 1..Len(weather_data) :
          /\ weather_data[w].timestamp = NearestPriorTime(final_df[i].timestamp)
          /\ weather_data[w].temperature_c = final_df[i].temperature_c

\* C9: where no weather record exists at or before a grid timestamp, the rows
\* at that timestamp carry null weather fields and the run does not crash.
C9_MissingWeatherIsNull ==
  /\ (pc = "crashed" => raised # 6)
  /\ GridBuilt =>
       \A i \in 1..Len(final_df) :
         ~HasPrior(final_df[i].timestamp) => final_df[i].temperature_c = None

\* the position of hour t in the sorted timestamps of the grid
Rank(t) == Cardinality({u \in RetainedTimestamps : u <= t})

HourOfRank(n) == CHOOSE u \in RetainedTimestamps : Rank(u) = n

CountAt(e, t) ==
  final_df[CHOOSE q \in 1..Len(final_df) :
             final_df[q].edge_id = e /\ final_df[q].timestamp = t].bike_count

\* the lag-k value the claim gives to the row of edge e at hour t
ExpectedLag(e, t, k) ==
  IF Rank(t) > k THEN CountAt(e, HourOfRank(Rank(t) - k)) ELSE None

\* C10: the grid is sorted by (edge id, timestamp); lag-1h and lag-24h of the
\* i-th row of an edge are the bike_count of the (i-1)-th and (i-24)-th row of
\* the same edge, null when the edge has fewer earlier rows.
C10_PositionalLag ==
  pc \in {"etape10", "done"} =>
    /\ \A p \in 1..(Len(final_df) - 1) : RowBefore(final_df[p], final_df[p + 1])
    /\ \A p \in 1..Len(final_df) :
         /\ final_df[p].bike_count_lag_1h
              = ExpectedLag(final_df[p].edge_id, final_df[p].timestamp, LAG_1H)
         /\ final_df[p].bike_count_lag_24h
              = ExpectedLag(final_df[p].edge_id, final_df[p].timestamp, LAG_24H)

\* two edges of 25 hours: the 25th row of the second edge takes its lag-24h
\* from its own first row, and a row of the first edge has a null lag-1h
C10_Witness ==
  /\ pc = "done"
  /\ Cardinality(EdgesCarryingSensor) = 2
  /\ \E p \in 1..Len(final_df) :
       /\ final_df[p].edge_id = 102
       /\ final_df[p].timestamp = 25
       /\ final_df[p].bike_count_lag_24h = 101
  /\ \E p \in 1..Len(final_df) :
       /\ final_df[p].edge_id = 102
       /\ final_df[p].timestamp = 3
       /\ final_df[p].bike_count_lag_1h = None

\* the bike_count of edge e at the k-th hour of the grid, for every edge and k
CountTable(ts) ==
  [e \in EdgesCarryingSensor |-> [k \in 1..Len(ts) |-> CountAt(e, ts[k])]]

\* sum of the non-null cells col[lo..hi]
RECURSIVE SumObserved(_, _, _)
SumObserved(col, lo, hi) ==
  IF lo > hi THEN 0
  ELSE IF lo = hi THEN (IF col[hi] = None THEN 0 ELSE col[hi])
  ELSE SumObserved(col, lo, hi - 1 - ((hi - lo) \div 2))
       + SumObserved(col, hi - ((hi - lo) \div 2), hi)

\* the rolling column of edge e, in hour order
RollingColumn(e, ts) ==
  [k \in 1..Len(ts) |->
     final_df[CHOOSE q \in 1..Len(final_df) :
                final_df[q].edge_id = e /\ final_df[q].timestamp = ts[k]].bike_count_rolling_7d]

\* C11: the rolling-7d value of the i-th row of an edge is the mean of the
\* (non-null) bike_count values of the same edge over the window of at most
\* 168 rows ending at row i, a partial window being averaged over the rows
\* it has; rows of another edge are never used; [10, 20, 30] gives [10, 15, 20].
C11_RollingMean ==
  pc \in {"etape10", "done"} =>
    LET ts    == SortedSeq(RetainedTimestamps)
        count == CountTable(ts)
    IN  /\ \A p \in 1..Len(final_df) :
             LET e   == final_df[p].edge_id
                 k   == CHOOSE j \in 1..Len(ts) : ts[j] = final_df[p].timestamp
                 lo  == IF k > 168 THEN k - 167 ELSE 1
                 n   == Cardinality({j \in lo..k : count[e][j] # None})
                 avg == final_df[p].bike_count_rolling_7d
             IN  IF n = 0 THEN avg = NaN
                 ELSE avg.den > 0 /\ avg.num * n = SumObserved(count[e], lo, k) * avg.den
        /\ \A e \in EdgesCarryingSensor :
             count[e] = <<10, 20, 30>> =>
               RollingColumn(e, ts) = <<[num |-> 10, den |-> 1], [num |-> 15, den |-> 1],
                                        [num |-> 20, den |-> 1]>>

\* the 169th row of edge 101 averages the counts 2..169 of that edge only:
\* the first row has left the window and the counts of edge 102 are not used
C11_Witness ==
  /\ pc = "done"
  /\ \E p \in 1..Len(final_df) :
       /\ final_df[p].edge_id = 101
       /\ final_df[p].timestamp = 169
       /\ final_df[p].bike_count_rolling_7d = [num |-> 171, den |-> 2]

\* a required feed is entirely absent
FeedMissing ==
  \/ OsmFile \notin files
  \/ SensorsFile \notin files
  \/ bike_counter_files = <<>>
  \/ WeatherFile \notin files

\* the run ended with a non-zero exit code
Aborted == pc \in {"exited", "crashed"}

\* C12: when the road-network file, the sensor-metadata file, every count
\* file or every weather file is absent, the run aborts with a non-zero exit
\* and at no point of the run is the static-feature table or the training
\* table written.
C12_MissingFeedAborts ==
  /\ [](FeedMissing => (written = {} /\ pc # "done"))
  /\ (FeedMissing ~> Aborted)

\* only the weather feed is missing: the run went through ETAPEs 1 to 5 and
\* left at the last guard, with nothing written
C12_Witness ==
  /\ files = AllFiles \ {WeatherFile}
  /\ bike_counter_files # <<>>
  /\ pc = "exited"
  /\ raised = 6
  /\ bike_lane # <<>>
  /\ written = {}

\* the count files have been read: ETAPE 4 has run past its merge loop
Merged ==
  \/ pc \in {"etape5", "etape6", "etape7", "etape8", "etape9", "etape10", "done"}
  \/ pc = "crashed" /\ raised >= 4
  \/ pc = "exited" /\ raised > 4

\* the readable files among the first n count files
ReadableUpTo(n) == {f \in 1..n : bike_counter_files[f].readable}

\* the number of records held by a set of files
RECURSIVE RecordsIn(_)
RecordsIn(fs) ==
  IF fs = {} THEN 0
  ELSE LET f == CHOOSE g \in fs : TRUE
       IN  Len(bike_counter_files[f].records) + RecordsIn(fs \ {f})

\* C13: an unreadable count file is skipped and contributes nothing; the
\* merged count data is the records of the readable files, file after file,
\* each record once; and the run does not stop at the merge as long as some
\* readable file holds a record.
C13_CorruptFileSkipped ==
  Merged =>
    /\ Len(all_bike_records) = RecordsIn(ReadableUpTo(Len(bike_counter_files)))
    /\ \A f \in ReadableUpTo(Len(bike_counter_files)) :
         \A k \in 1..Len(bike_counter_files[f].records) :
           all_bike_records[RecordsIn(ReadableUpTo(f - 1)) + k]
             = bike_counter_files[f].records[k]
    /\ (\E f \in ReadableUpTo(Len(bike_counter_files)) :
          bike_counter_files[f].records # <<>>) => raised # 4

\* a damaged file between two readable ones: the run is complete and the
\* merged data holds the three records of the readable files
C13_Witness ==
  /\ pc = "done"
  /\ Len(bike_counter_files) = 3
  /\ bike_counter_files[1].readable
  /\ ~bike_counter_files[2].readable
  /\ bike_counter_files[3].readable
  /\ bike_counter_files[2].records # <<>>
  /\ Len(all_bike_records) = 3

\* ETAPE 5 has assigned the two facility columns
Annotated == bike_lane # <<>>

\* C14: when the facility layer is absent, ETAPE 5 does not fail, every edge
\* gets has_dedicated_bike_lane = false and the sentinel distance 999999, the
\* static-feature table carries these values, and a run that reaches its end
\* has written both output tables.
C14_AbsentLayerDefaults ==
  InfraFile \notin files =>
    /\ raised # 5
    /\ pc \in {"etape6", "etape7", "etape8", "etape9", "etape10", "done"} => Annotated
    /\ Annotated =>
         \A i \in 1..Len(edges_gdf) :
           /\ bike_lane[i].has_dedicated_bike_lane = FALSE
           /\ bike_lane[i].bike_lane_distance_m = 999999 * 10
    /\ StaticTable \in written =>
         \A i \in 1..Len(edges_static) :
           /\ edges_static[i].has_dedicated_bike_lane = FALSE
           /\ edges_static[i].bike_lane_distance_m = 999999 * 10
    /\ pc = "done" => written = {StaticTable, TrainingTable}

\* a complete run without facility layer, facilities standing next to the
\* edges and a sensor on an edge
C14_Witness ==
  /\ InfraFile \notin files
  /\ pc = "done"
  /\ written = {StaticTable, TrainingTable}
  /\ edges_with_sensors # <<>>
  /\ Len(edges_static) = 2

\* C15: when the facility layer is present, an edge without associated
\* sensor keeps the sentinel distance 999999 whatever its flag, and an edge
\* that carries a sensor holds the smallest distance to the facilities of the
\* layer when the layer has at least one.
C15_ExactDistanceOnlyWithSensor ==
  (InfraFile \in files /\ Annotated) =>
    \A i \in 1..Len(edges_gdf) :
      IF edges_gdf[i].osm_id \in EdgesCarryingSensor
        THEN Len(lane_distances[i]) > 0 =>
               /\ bike_lane[i].bike_lane_distance_m \in Range(lane_distances[i])
               /\ \A k \in 1..Len(lane_distances[i]) :
                    bike_lane[i].bike_lane_distance_m <= lane_distances[i][k]
        ELSE bike_lane[i].bike_lane_distance_m = 999999 * 10

\* the first edge carries a sensor and holds 15 m, the nearer of its two
\* facilities; the second edge has no sensor, touches a facility, is
\* flagged, and keeps the sentinel
C15_Witness ==
  /\ InfraFile \in files
  /\ pc = "done"
  /\ EdgesCarryingSensor = {101}
  /\ lane_distances[1] = <<300, 150>>
  /\ bike_lane[1].bike_lane_distance_m = 150
  /\ lane_distances[2][1] = 0
  /\ bike_lane[2].has_dedicated_bike_lane
  /\ bike_lane[2].bike_lane_distance_m = 999999 * 10

\* the bearing of a geometry in [0, 360), in half-degrees
Bearing(geom) == (geom.angle + 720) % 720

\* the eight octants of the claim, as half-open intervals of half-degrees
Octants ==
  <<[name |-> "E",  lo |-> -45, hi |-> 45],  [name |-> "NE", lo |-> 45,  hi |-> 135],
    [name |-> "N",  lo |-> 135, hi |-> 225], [name |-> "NW", lo |-> 225, hi |-> 315],
    [name |-> "W",  lo |-> 315, hi |-> 405], [name |-> "SW", lo |-> 405, hi |-> 495],
    [name |-> "S",  lo |-> 495, hi |-> 585], [name |-> "SE", lo |-> 585, hi |-> 675]>>

InOctant(b, o) == (o.lo <= b /\ b < o.hi) \/ (o.lo <= b - 720 /\ b - 720 < o.hi)

\* C16: the orientation of an edge with two coordinates or more is the one
\* octant whose half-open 45-degree interval holds its bearing: [-22.5, 22.5)
\* E, [22.5, 67.5) NE, ... [292.5, 337.5) SE; bearing 0 is E, bearing 46 is NE.
C16_OrientationOctant ==
  StaticTable \in written =>
    \A i \in 1..Len(edges_gdf) :
      edges_gdf[i].geometry.coords >= 2 =>
        LET b == Bearing(edges_gdf[i].geometry) IN
        /\ Cardinality({k \in 1..Len(Octants) : InOctant(b, Octants[k])}) = 1
        /\ \A k \in 1..Len(Octants) :
             InOctant(b, Octants[k]) => edges_static[i].orientation = Octants[k].name
        /\ b = 0 => edges_static[i].orientation = "E"
        /\ b = 92 => edges_static[i].orientation = "NE"

\* an edge whose bearing is exactly 22.5 degrees falls in NE
C16_Witness ==
  /\ pc = "done"
  /\ edges_gdf[1].geometry = Line(2, 45)
  /\ edges_static[1].orientation = "NE"

\* C17: an edge whose geometry has fewer than 2 coordinates does not make the
\* run fail in the loading or the computation of the static features: its
\* orientation is null and it has its row in the static-feature table.
C17_DegenerateGeometryRetained ==
  (\E i \in 1..Len(edges_gdf) : edges_gdf[i].geometry.coords < 2) =>
    /\ raised \notin {1, 7}
    /\ StaticTable \in written =>
         \A i \in 1..Len(edges_gdf) :
           edges_gdf[i].geometry.coords < 2 =>
             /\ edges_static[i].osm_id = edges_gdf[i].osm_id
             /\ edges_static[i].orientation = NA

\* the road category the claim gives to a raw highway tag
RoadCategoryOf(tag) ==
  CASE tag \in {"motorway", "trunk"}        -> "major"
    [] tag \in {"primary", "secondary"}     -> "arterial"
    [] tag \in {"tertiary", "residential"}  -> "local"
    [] tag \in {"cycleway", "path"}         -> "bike_path"
    [] OTHER                                -> "other"

\* C18: the road category is major for motorway and trunk, arterial for
\* primary and secondary, local for tertiary and residential, bike_path for
\* cycleway and path, other for every other value; a missing tag becomes
\* 'unknown' and is categorised other; no category lies outside the five.
C18_RoadCategoryClosed ==
  StaticTable \in written =>
    \A i \in 1..Len(edges_gdf) :
      /\ edges_static[i].road_category = RoadCategoryOf(edges_gdf[i].highway)
      /\ edges_static[i].road_category \in {"major", "arterial", "local", "bike_path", "other"}
      /\ edges_gdf[i].highway = NA =>
           /\ edges_static[i].highway_type = "unknown"
           /\ edges_static[i].road_category = "other"

\* a way without highway tag next to a residential one
C18_Witness ==
  /\ pc = "done"
  /\ edges_gdf[1].highway = NA
  /\ edges_static[1].highway_type = "unknown"
  /\ edges_static[1].road_category = "other"
  /\ edges_static[2].road_category = "local"

\* the digits of a tag text that reads as an integer: an optional sign, then
\* decimal digits only
Unsigned(x) == IF Chars(x)[1] \in {"+", "-"} THEN Tail(Chars(x)) ELSE Chars(x)

ParsesAsInteger(x) ==
  /\ x # NA
  /\ Unsigned(x) # <<>>
  /\ \A k \in 1..Len(Unsigned(x)) : Unsigned(x)[k] \in Range(DecimalDigits)

IntegerValue(x) ==
  IF Chars(x)[1] = "-" THEN 0 - DecimalValue(Unsigned(x)) ELSE DecimalValue(Unsigned(x))

\* C19: the derived speed limit is the integer value of the speed tag when
\* the tag parses as an integer and 50 otherwise (absent, null, non-integer
\* text); the derived lane count is the integer value of the lanes tag when
\* it parses as an integer and 2 otherwise.
C19_TagsParsedOrDefault ==
  StaticTable \in written =>
    \A i \in 1..Len(edges_gdf) :
      /\ edges_static[i].maxspeed_kmh =
           IF ParsesAsInteger(edges_gdf[i].maxspeed)
             THEN IntegerValue(edges_gdf[i].maxspeed) ELSE 50
      /\ edges_static[i].lanes =
           IF ParsesAsInteger(edges_gdf[i].lanes)
             THEN IntegerValue(edges_gdf[i].lanes) ELSE 2

\* some feature lacks some raw attribute
AttributeAbsent ==
  \E i \in 1..Len(edges_gdf), k \in 1..Len(RawColumns) : edges_gdf[i][RawColumns[k]] = NA

\* C20: whatever raw attributes are absent, on some edges or on all of them,
\* the static features are computed without raising and an absent attribute
\* gives the default: highway unknown, surface unknown, one-way / lit /
\* has-cycleway false, speed 50, lanes 2.
C20_TotalOnMissingAttributes ==
  (AttributeAbsent /\ ~\E i \in 1..Len(edges_gdf) :
                        ParseTagRaises(edges_gdf[i].maxspeed)
                          \/ ParseTagRaises(edges_gdf[i].lanes)) =>
    /\ raised # 7
    /\ StaticTable \in written =>
         \A i \in 1..Len(edges_gdf) :
           /\ edges_gdf[i].highway = NA => edges_static[i].highway_type = "unknown"
           /\ edges_gdf[i].surface = NA => edges_static[i].surface_quality = "unknown"
           /\ edges_gdf[i].oneway = NA => edges_static[i].is_oneway = FALSE
           /\ edges_gdf[i].lit = NA => edges_static[i].is_lit = FALSE
           /\ edges_gdf[i].cycleway = NA => edges_static[i].has_cycleway = FALSE
           /\ edges_gdf[i].maxspeed = NA => edges_static[i].maxspeed_kmh = 50
           /\ edges_gdf[i].lanes = NA => edges_static[i].lanes = 2

\* ---- closed loops
\* the edge at position i is a closed loop: two coordinates or more, the last
\* one on the first one
ClosedLoop(i) == edges_gdf[i].geometry.coords >= 2 /\ edges_gdf[i].geometry.closed

\* C30: an edge with at least 2 coordinates whose first and last coordinates
\* coincide (a roundabout) gets the orientation 'E' in the static table, not
\* an undefined orientation.
C30_ClosedLoopIsEast ==
  edges_static # <<>> =>
    \A i \in 1..Len(edges_gdf) :
      ClosedLoop(i) => /\ edges_static[i].orientation = "E"
                       /\ edges_static[i].orientation # NA

C30_Witness ==
  /\ edges_static # <<>>
  /\ StaticTable \in written
  /\ \E i \in 1..Len(edges_gdf) : ClosedLoop(i) /\ edges_static[i].osm_id = edges_gdf[i].osm_id

\* ---- conservation of the counts
\* the bike_count column of the grid
GridCounts == [i \in 1..Len(final_df) |-> final_df[i].bike_count]

\* the counts of the feed, a record of a sensor without edge counting for 0
AssociatedCounts ==
  [i \in 1..Len(all_bike_records) |->
     IF all_bike_records[i].counter_id \in DOMAIN sensor_to_edge
       THEN all_bike_records[i].count ELSE 0]

GridTimestamps == {final_df[i].timestamp : i \in 1..Len(final_df)}

\* C28: the sum of the non-null bike_count values over the rows of the grid
\* equals the sum of the counts of the count records whose sensor is
\* associated with an edge, and every grid timestamp has at least one row
\* with a non-null bike_count.
C28_CountsConserved ==
  GridBuilt =>
    /\ SumObserved(GridCounts, 1, Len(final_df))
         = SumObserved(AssociatedCounts, 1, Len(all_bike_records))
    /\ \A t \in GridTimestamps :
         \E i \in 1..Len(final_df) :
           final_df[i].timestamp = t /\ final_df[i].bike_count # None

\* two records fall on one row, a record of an unknown sensor is dropped,
\* and a row of the grid is null
C28_Witness ==
  /\ pc = "done"
  /\ \E i \in 1..Len(final_df) : final_df[i].bike_count = None
  /\ \E i \in 1..Len(final_df) :
       Cardinality(RecordsOn(final_df[i].edge_id, final_df[i].timestamp)) >= 2
  /\ SumObserved(GridCounts, 1, Len(final_df)) > 0

\* ---- order of the weather feed
\* the feeds that list the records of weather_data in another order
Reorderings(feed) ==
  {[k \in 1..Len(feed) |-> feed[o[k]]] : o \in Orderings(1..Len(feed))}

WeatherFields ==
  {"temperature_c", "precipitation_mm", "wind_speed_kmh", "is_raining",
   "is_cold", "is_hot", "is_windy"}

\* C29: the weather record joined onto a grid timestamp does not depend on
\* the order in which the weather feed lists its records: a feed with the
\* same records in another order yields the same weather fields for every
\* grid row.
C29_WeatherOrderIndependent ==
  GridBuilt =>
    \A other \in Reorderings(weather_data) :
      \A i \in 1..Len(final_df) :
        \A f \in WeatherFields :
          final_df[i][f] = Meteo(WeatherRow(other, final_df[i].timestamp))[f]

\* ---- calendar features at prediction time
\* the prediction frame holds its calendar columns
PredictedCalendar == predict_pc \in {"etape5", "etape6", "etape7", "etape8", "done"}

\* the calendar columns of a prediction row say what the record cal says
SameCalendar(row, cal) ==
  /\ row.hour = cal.hour
  /\ row.day_of_week = cal.day_of_week
  /\ (row.is_weekend = 1) = cal.is_weekend
  /\ (row.is_rush_hour_morning = 1) = cal.is_rush_hour_morning
  /\ (row.is_rush_hour_evening = 1) = cal.is_rush_hour_evening

\* C21: for every timestamp (every hour 0..23, every weekday 0..6 with
\* 0 = Monday) the calendar features of the prediction-time generator have
\* the truth values of those of the training-grid generator: morning rush,
\* evening rush, weekend, and the same hour and day of week; the rows the
\* grid holds for the target hour agree with the prediction rows.
C21_CalendarAgrees ==
  PredictedCalendar =>
    \A i \in 1..Len(edges_pred.rows) :
      /\ SameCalendar(edges_pred.rows[i], Temporel(target_datetime.hour))
      /\ \A r \in 1..Len(final_df) :
           final_df[r].timestamp = target_datetime.hour =>
             SameCalendar(edges_pred.rows[i], final_df[r])

\* a Saturday at 9: the last hour of the morning rush, on a weekend
C21_Witness ==
  /\ predict_pc = "done"
  /\ Hour(target_datetime.hour) = 9
  /\ Weekday(target_datetime.hour) = 5
  /\ edges_pred.rows[1].is_rush_hour_morning = 1
  /\ edges_pred.rows[1].is_weekend = 1

\* ---- the weather record of a prediction
\* the prediction script has selected its weather record
WeatherSelected == predict_pc \in {"etape4", "etape5", "etape6", "etape7", "etape8", "done"}

\* minutes between a record of the feed and the target
MinutesFrom(record) == TimeDiff(At(record.timestamp, 0), target_datetime)

\* the selected record is a record of the feed, none of which is closer
ClosestSelected ==
  \E w \in 1..Len(weather_data) :
    /\ closest_weather.timestamp = At(weather_data[w].timestamp, 0)
    /\ closest_weather.temperature_c = weather_data[w].temperature_c
    /\ \A v \in 1..Len(weather_data) :
         MinutesFrom(weather_data[w]) <= MinutesFrom(weather_data[v])

\* the rows the grid holds for the target carry the nearest prior record
PriorJoined ==
  \A r \in 1..Len(final_df) :
    (/\ target_datetime = At(final_df[r].timestamp, 0)
     /\ HasPrior(final_df[r].timestamp)) =>
      \E w \in 1..Len(weather_data) :
        /\ weather_data[w].timestamp = NearestPriorTime(final_df[r].timestamp)
        /\ weather_data[w].temperature_c = final_df[r].temperature_c

\* C22: at prediction time the weather record used for the target datetime
\* is the one with the smallest absolute time difference to the target,
\* which may be a record later than the target, whereas the training-grid
\* assembly uses, for the same weather series and timestamp, the nearest
\* prior record.
C22_ClosestAtPredictionPriorAtTraining ==
  WeatherSelected => (ClosestSelected /\ PriorJoined)

\* ---- the categorical codes of a prediction
\* the prediction script has encoded its categorical columns
Encoded == predict_pc \in {"etape7", "etape8", "done"}

\* the category of row r of the training table as the training script reads
\* it, and of edge i as the prediction script reads it
TrainingCategory(r, c) ==
  FillNa(ReadCsv(GridColumns \o LagColumns, final_df).rows[r][c], "unknown")

PredictionCategory(i, c) == FillNa(edges_static[i][c], "unknown")

\* the rows of the training table that hold the category of edge i
SeenAt(i, c) ==
  {r \in 1..Len(final_df) : TrainingCategory(r, c) = PredictionCategory(i, c)}

\* C23: at prediction time, for every categorical column that has a
\* training-time encoder, a category seen at training gets the code it got at
\* training, a category not seen at training (a missing value filled with
\* 'unknown' included, when 'unknown' was no training category) gets -1,
\* which is the code of no seen category, and the encoding step never fails.
C23_SeenSameCodeUnseenSentinel ==
  /\ ~(predict_pc = "crashed" /\ predict_raised = 6)
  /\ Encoded =>
       \A c \in DOMAIN label_encoders :
         /\ \A r \in 1..Len(train_df.rows) : train_df.rows[r][c] # -1
         /\ \A i \in 1..Len(edges_pred.rows) :
              /\ \A r \in SeenAt(i, c) : edges_pred.rows[i][c] = train_df.rows[r][c]
              /\ SeenAt(i, c) = {} => edges_pred.rows[i][c] = -1

\* an edge whose road type was seen at training next to an edge whose road
\* type was not, and whose missing orientation is filled with an 'unknown'
\* that training never saw
C23_Witness ==
  /\ Encoded
  /\ Len(edges_pred.rows) = 2
  /\ SeenAt(1, "highway_type") # {}
  /\ edges_pred.rows[1]["highway_type"] >= 0
  /\ SeenAt(2, "highway_type") = {}
  /\ edges_pred.rows[2]["highway_type"] = -1
  /\ edges_static[2]["orientation"] = NA
  /\ SeenAt(2, "orientation") = {}
  /\ edges_pred.rows[2]["orientation"] = -1

\* ---- the feature matrix of a prediction
\* the prediction script has built its feature matrix
MatrixBuilt == predict_pc \in {"etape8", "done"}

\* the columns of the training table without the keys and the target
NonTargetColumns ==
  SelectSeq(train_df.columns, LAMBDA c : c \notin {"edge_id", "timestamp", "bike_count"})

\* the columns a prediction run derives: those of the static table, the
\* calendar and the weather
Derived == Range(StaticColumns) \cup Range(CalendarNames) \cup Range(WeatherNames)

\* C24: the feature matrix of a prediction has exactly the feature columns
\* persisted at training time (the columns of the training table except
\* edge_id, timestamp and bike_count), in the same order, for every edge; a
\* training feature the prediction run cannot derive (the lag and rolling
\* features) is present and set to 0.
C24_SameFeaturesSameOrder ==
  MatrixBuilt =>
    /\ X.columns = models[FeaturesFile]
    /\ X.columns = NonTargetColumns
    /\ Len(X.rows) = Len(edges_static)
    /\ \A i \in 1..Len(X.rows) :
         /\ DOMAIN X.rows[i] = Range(NonTargetColumns)
         /\ \A c \in Range(NonTargetColumns) \ Derived : X.rows[i][c] = 0

\* a matrix of two edges whose lag and rolling columns hold 0 and whose
\* columns are in training order, which is not the order of the static table
C24_Witness ==
  /\ MatrixBuilt
  /\ Len(X.rows) = 2
  /\ Range(LagColumns) \subseteq Range(X.columns) \ Derived
  /\ \A c \in Range(LagColumns) : X.rows[2][c] = 0
  /\ X.columns # SelectSeq(edges_pred.columns, LAMBDA c : c \in Range(X.columns))

\* ---- the weather flags of a prediction
\* the prediction script has derived its weather columns
FlagsDerived == predict_pc \in {"etape6", "etape7", "etape8", "done"}

\* a row of the grid holds the temperature and the wind speed of the weather
\* record the prediction uses
SameRecord(row) ==
  /\ row.temperature_c = closest_weather.temperature_c
  /\ row.wind_speed_kmh = closest_weather.wind_speed_kmh

\* C25: the flags is_cold, is_hot and is_windy the prediction script derives
\* from a weather record equal the flags the dataset assembly derives from
\* the same record, for every temperature and wind speed.
C25_WeatherFlagsAgree ==
  FlagsDerived =>
    \A i \in 1..Len(edges_pred.rows), r \in 1..Len(final_df) :
      SameRecord(final_df[r]) =>
        /\ final_df[r].is_cold  <=> edges_pred.rows[i].is_cold = 1
        /\ final_df[r].is_hot   <=> edges_pred.rows[i].is_hot = 1
        /\ final_df[r].is_windy <=> edges_pred.rows[i].is_windy = 1

\* ---- the split of the training script
\* the training script has split its observed rows
SplitDone == train_pc \in {"etape4", "etape7", "done"} \/ train_raised = 4

\* C26: the 80/20 split of the training script is temporal: on the training
\* table as the assembly writes it (sorted by edge id, then timestamp), every
\* row of the training part has a timestamp no later than every row of the
\* test part.
C26_SplitIsTemporal ==
  SplitDone =>
    \A a \in 1..split_idx, b \in (split_idx + 1)..Len(df_valid) :
      df_valid[a].timestamp <= df_valid[b].timestamp

\* ---- the collection orchestrator
\* main() has reached its summary
Collected == collect_pc \in {"resume", "done"}

\* the status the summary must hold for what a collector did
StatusOf(outcome) ==
  IF outcome = "path" THEN "success" ELSE IF outcome = "nothing" THEN "failed" ELSE "error"

\* C27: the orchestrator runs the four collectors exactly once each in the
\* order road network, cycling infrastructure, bike counters, weather; a
\* collector that returns nothing or raises does not keep the later ones from
\* running; the summary holds one entry per source, whose status is 'success'
\* exactly when the collector returned a file path, 'failed' when it returned
\* nothing and 'error' when it raised.
C27_AllCollectorsRunAndReported ==
  /\ collect_pc # "crashed"
  /\ Len(called) <= Len(Sources)
  /\ \A k \in 1..Len(called) : called[k] = Sources[k]
  /\ \A k \in 1..Len(Sources) : collect_pc = Position(k) => Len(called) = k - 1
  /\ Collected => called = Sources
  /\ collect_pc = "done" =>
       /\ Len(summary) = Len(Sources)
       /\ \A k \in 1..Len(Sources) :
            /\ summary[k].source = Sources[k]
            /\ summary[k].status = StatusOf(collectors[Sources[k]])

\* a run whose first collector raised and whose second returned nothing, the
\* last two returning their paths
C27_Witness ==
  /\ collect_pc = "done"
  /\ collectors["osm_network"] = "raises"
  /\ collectors["bike_infrastructure"] = "nothing"
  /\ called = Sources
  /\ summary[1].status = "error"
  /\ summary[2].status = "failed"
  /\ summary[3].status = "success"
  /\ summary[4].status = "success"

====
